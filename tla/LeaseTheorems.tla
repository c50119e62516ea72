--------------------------- MODULE LeaseTheorems ----------------------------
(***************************************************************************)
(* Theorems about LeaseSystem, and about ManagedPool, for every cluster,   *)
(* pool and set of faults.                                                 *)
(***************************************************************************)
EXTENDS ManagedPool, GPULeaseProofs, WarmPoolProofs, LeaseSafetyProofs,
        SystemProofs, FiniteSetTheorems

\* The counts that the promotion decision compares are numbers.
LEMMA CountsType == Counts
  <1>1. ASSUME NEW n \in Nodes PROVE Cardinality(FreeGPUIDs(n)) \in Nat
    <2>1. FreeGPUIDs(n) \subseteq {n} \X (0 .. Capacity[n] - 1)
      BY DEF FreeGPUIDs, Slot
    <2>2. IsFiniteSet({n}) /\ IsFiniteSet(0 .. Capacity[n] - 1)
      <3>1. 0 \in Int /\ Capacity[n] - 1 \in Int
        BY ClusterAssumption
      <3>2. IsFiniteSet(0 .. Capacity[n] - 1)
        BY <3>1, FS_Interval
      <3> QED BY <3>2, FS_Singleton
    <2>3. IsFiniteSet({n} \X (0 .. Capacity[n] - 1))
      BY Zenon, <2>2, FS_Product
    <2> QED BY <2>1, <2>3, FS_Subset, FS_CardinalityType
  <1>2. ASSUME NEW S PROVE Cardinality(Considered(S)) \in Nat
    <2>1. Considered(S) \subseteq Pods
      BY DEF Considered
    <2> QED BY <2>1, FS_Subset, FS_CardinalityType, ClusterAssumption
  <1>3. NodeFreeCounts \in [Nodes -> Nat]
    BY <1>1 DEF NodeFreeCounts
  <1>4. held \in Nat
    BY <1>2 DEF held
  <1>5. \A r \in Nat, w \in Nat, m \in Nat : targetHot(r, w, m) \in Int
    BY DEF targetHot
  <1>6. target \in Int
    <2>1. Cardinality(Considered(PodState)) \in Nat
      BY <1>2
    <2> QED BY <1>5, <2>1, PoolAssumption DEF target
  <1> QED BY <1>3, <1>4, <1>6 DEF Counts

\* Every step preserves Base and keeps leases on their state machine.
LEMMA NextBase ==
  ASSUME Base, [Next]_vars
  PROVE  Base' /\ LeaseSteps
  <1>1. CASE GLNext /\ UNCHANGED wp
    BY <1>1, GLStartBase, GLUpdatesBase, GLCallsBase DEF GLNext, GLCall
  <1>2. CASE WPNext /\ UNCHANGED gl
    BY <1>2, CountsType, SweepBase, PoolBase DEF WPNext, WPCall
  <1>3. CASE UNCHANGED vars
    BY <1>3, NoLeaseStep
    DEF vars, Base, TypeOK, Copies, GLPlan, WPPlan, FinalizerKept, Exists
  <1> QED BY <1>1, <1>2, <1>3, EnvironmentBase DEF Next

\* Base is an invariant of the system.
LEMMA BaseHolds == Spec => []Base
  <1>1. Base /\ [Next]_vars => Base'
    BY NextBase
  <1> QED BY <1>1, InitBase, PTL DEF Spec

\* Placed is an invariant of the system.
LEMMA PlacedHolds == Spec => []Placed
  <1>1. Init => Placed
    <2> SUFFICES ASSUME Init PROVE Placed
      OBVIOUS
    <2>1. \A s \in Slot : lease[s].phase = "none" /\ cache.lease[s].phase = "none"
      BY DEF Init, NoLeases, Absent
    <2>2. \A p \in Pods : SeenPod(p) = pod[p] /\ pod[p].st # "gone"
      BY DEF Init, SeenPod
    <2>3. gl.pc = "idle" /\ wp.cands = {}
      BY DEF Init, GLIdle, WPIdle
    <2>4. \A p \in Pods, s \in Slot : ~Uses(machine[p], s)
      BY DEF Init, Uses, WarmMachine
    <2> QED BY <2>1, <2>2, <2>3, <2>4 DEF Placed, PodsSeen, Fits, UsesOwnNode
  <1>2. Base /\ Placed /\ [Next]_vars => Placed'
    <2> SUFFICES ASSUME Base, Placed, [Next]_vars PROVE Placed'
      OBVIOUS
    <2>1. Base' /\ LeaseSteps
      BY NextBase
    <2>2. CASE UNCHANGED vars
      BY ZenonT(30), <2>2 DEF vars, Placed, PodsSeen, Fits, SeenPod, UsesOwnNode
    <2> QED BY <2>1, <2>2, GLPlaced, WPPlaced, EnvironmentPlaced DEF Next
  <1> QED BY <1>1, <1>2, BaseHolds, PTL DEF Spec

\* Safe is an invariant of the system when the lease cache is current.
LEMMA SafeHolds ==
  ASSUME "lease" \notin Stale
  PROVE  Spec => []Safe
  <1>1. Safe /\ Placed /\ [Next]_vars => Safe'
    <2> SUFFICES ASSUME Safe, Placed, [Next]_vars PROVE Safe'
      OBVIOUS
    <2>1. Base'
      BY NextBase DEF Safe
    <2> QED BY <2>1, NextSafe
  <1> QED BY <1>1, InitSafe, PlacedHolds, PTL DEF Spec

-----------------------------------------------------------------------------
(* Theorems *)

\* Every object, cache and worker has its type, in every cluster and with any
\* faults; a machine names a lease exactly while it is not warm.
THEOREM TypeCorrect == Spec => []TypeOK
  <1>1. Base => TypeOK
    BY DEF Base
  <1> QED BY <1>1, BaseHolds, PTL

\* Optimistic locking suffices: with any faults, and with caches that trail by
\* any amount, every lease follows its state machine and keeps its claim.
THEOREM LifecycleHolds == Spec => LeaseLifecycle
  <1>1. Base /\ [Next]_vars => [\A s \in Slot : LeaseStep(lease[s], lease'[s])]_vars
    BY NextBase DEF LeaseSteps
  <1> QED BY <1>1, BaseHolds, PTL DEF Spec, LeaseLifecycle

\* With any faults, and with caches that trail by any amount, a pod warms up or
\* serves only on a GPU of its own node.
THEOREM UsesOwnNodeHolds == Spec => []UsesOwnNode
  <1>1. Placed => UsesOwnNode
    BY DEF Placed
  <1> QED BY <1>1, PlacedHolds, PTL

\* No cleanup path of the GPULease reconciler, and nothing the WarmPool
\* reconciler, an operator or Kueue does, leaves a pod on a GPU without a
\* serving lease that claims the pod: API errors, lost or unanswered POSTs,
\* lost label patches, pod deletions and container restarts included, and
\* however far the pod and Workload caches trail.
THEOREM GPUUseLeasedHolds ==
  ASSUME "lease" \notin Stale, "lostDelete" \notin FaultKinds
  PROVE  Spec => []GPUUseLeased
  <1>1. Safe => GPUUseLeased
    BY DEF Safe, GPUsProtected
  <1> QED BY <1>1, SafeHolds, PTL

\* Under the same hypotheses no GPU is ever used by two pods.
THEOREM GPUExclusiveHolds ==
  ASSUME "lease" \notin Stale, "lostDelete" \notin FaultKinds
  PROVE  Spec => []GPUExclusive
  <1>1. GPUUseLeased => GPUExclusive
    BY DEF GPUUseLeased, GPUExclusive
  <1> QED BY <1>1, GPUUseLeasedHolds, PTL

\* Under the same hypotheses no node has more active pods than GPUs: each of
\* them uses a GPU of its node, and no two the same.
THEOREM WithinCapacityHolds ==
  ASSUME "lease" \notin Stale, "lostDelete" \notin FaultKinds
  PROVE  Spec => []WithinCapacity
  <1>1. TypeOK /\ UsesOwnNode /\ GPUExclusive => WithinCapacity
    <2> SUFFICES ASSUME TypeOK, UsesOwnNode, GPUExclusive, NEW n \in Nodes
                 PROVE  Cardinality({p \in Pods : NodeOf[p] = n /\ machine[p].state \in {"activating", "hot"}})
                          <= Capacity[n]
      BY DEF WithinCapacity
    <2> DEFINE A == {p \in Pods : NodeOf[p] = n /\ machine[p].state \in {"activating", "hot"}}
               T == 0 .. Capacity[n] - 1
               f == [p \in A |-> machine[p].lease[2]]
    <2>1. ASSUME NEW p \in A
          PROVE  /\ machine[p].lease \in Slot /\ Uses(machine[p], machine[p].lease)
                 /\ machine[p].lease = <<n, f[p]>> /\ f[p] \in T
      <3>1. machine[p] \in Machine(Slot) /\ machine[p].state # "warm"
        BY DEF TypeOK
      <3>2. machine[p].lease \in Slot
        BY <3>1 DEF Machine, WarmMachine
      <3>3. Uses(machine[p], machine[p].lease)
        BY DEF Uses
      <3>4. machine[p].lease[1] = n
        BY <3>2, <3>3 DEF UsesOwnNode
      <3>5. PICK m \in Nodes : machine[p].lease \in {m} \X (0 .. Capacity[m] - 1)
        BY <3>2 DEF Slot
      <3> QED BY <3>2, <3>3, <3>4, <3>5
    <2>2. f \in Injection(A, T)
      <3>1. f \in [A -> T]
        BY Zenon, <2>1
      <3>2. ASSUME NEW p \in A, NEW q \in A, f[p] = f[q] PROVE p = q
        <4>1. machine[p].lease = machine[q].lease
          BY Zenon, <2>1, <3>2
        <4> QED BY Zenon, <2>1, <4>1 DEF GPUExclusive
      <3> QED BY Zenon, <3>1, <3>2 DEF Injection, IsInjective
    <2>3. IsFiniteSet(T) /\ Cardinality(T) = Capacity[n]
      <3>1. Capacity[n] \in Nat
        BY ClusterAssumption
      <3>2. 0 \in Int /\ Capacity[n] - 1 \in Int
        BY <3>1
      <3>3. IsFiniteSet(T) /\ Cardinality(T) = IF 0 > Capacity[n] - 1 THEN 0 ELSE Capacity[n] - 1 - 0 + 1
        BY <3>2, FS_Interval
      <3> QED BY <3>1, <3>3
    <2> HIDE DEF A, T, f
    <2>4. Cardinality(A) <= Cardinality(T)
      BY <2>2, <2>3, FS_Injection
    <2> QED BY <2>3, <2>4 DEF A
  <1> QED BY <1>1, TypeCorrect, UsesOwnNodeHolds, GPUExclusiveHolds, PTL

\* With a current lease cache the finalizer does its job: a Workload, and the
\* quota it reserves, never outlives its lease, a lost DELETE /lease or not.
THEOREM QuotaFreedFirstHolds ==
  ASSUME "lease" \notin Stale
  PROVE  Spec => []QuotaFreedFirst
  <1>1. Safe => QuotaFreedFirst
    BY DEF Safe
  <1> QED BY <1>1, SafeHolds, PTL

\* With a current lease cache transitionToFailed leaves no Workload behind.
THEOREM FailedHoldsNoQuotaHolds ==
  ASSUME "lease" \notin Stale
  PROVE  Spec => []FailedHoldsNoQuota
  <1>1. Safe => FailedHoldsNoQuota
    BY DEF Safe
  <1> QED BY <1>1, SafeHolds, PTL

\* With current lease and Workload caches, and unless Kueue evicts, no lease is
\* admitted without quota, although reconcilePending writes after it has read.
THEOREM AdmittedUnderQuotaHolds ==
  ASSUME "lease" \notin Stale, "workload" \notin Stale, "evict" \notin FaultKinds
  PROVE  Spec => AdmittedUnderQuota
  <1>1. Init => Gated
    <2> SUFFICES ASSUME Init PROVE Gated
      OBVIOUS
    <2>1. gl.pc = "idle" /\ \A s \in Slot : wl[s].st = "none"
      BY DEF Init, GLIdle, NoWorkload
    <2> QED BY <2>1 DEF Gated
  <1>2. ASSUME Safe, Placed, Gated, [Next]_vars
        PROVE  Gated' /\ [\A s \in Slot : lease[s].phase = "Pending" /\ lease'[s].phase = "Admitted"
                                            => wl[s].st = "admitted"]_vars
    <2>1. Base /\ Safe'
      BY <1>2, NextBase, NextSafe DEF Safe
    <2>2. CASE UNCHANGED vars
      BY <1>2, <2>2 DEF vars, Gated
    <2>3. CASE Next
      BY <1>2, <2>1, <2>3, GLGated, WPGated, EnvironmentGated DEF Next, GateHolds
    <2> QED BY <1>2, <2>2, <2>3
  <1>3. Safe /\ Placed /\ Gated /\ [Next]_vars => Gated'
    BY <1>2
  <1>4. Safe /\ Placed /\ Gated /\ [Next]_vars
          => [\A s \in Slot : lease[s].phase = "Pending" /\ lease'[s].phase = "Admitted"
                                => wl[s].st = "admitted"]_vars
    BY <1>2
  <1> QED BY <1>1, <1>3, <1>4, SafeHolds, PlacedHolds, PTL DEF Spec, AdmittedUnderQuota

\* Every step is a step of the ledger or a stutter.
LEMMA StepLedger ==
  ASSUME "lease" \notin Stale, "lostDelete" \notin FaultKinds, Safe, Placed, [Next]_vars
  PROVE  [Ledger!Next]_<<claims, users>>
  <1>1. Base' /\ LeaseSteps
    BY NextBase DEF Safe
  <1>2. Safe'
    BY <1>1, NextSafe
  <1>3. CASE UNCHANGED <<lease, machine>>
    BY <1>3 DEF claims, users
  <1>4. CASE Next
    <2>1. Base
      BY DEF Safe
    <2>2. Shaped
      BY <1>4, <2>1, GLShape, WPShape, EnvironmentShape DEF Next
    <2> QED BY <1>1, <1>2, <1>3, <2>2, LeaseLedger, MachineLedger DEF Shaped
  <1> QED BY <1>3, <1>4 DEF vars

\* With a current lease cache and DELETE /lease delivered, the two reconcilers,
\* Kueue, the pods and every other fault together implement the GPU ledger.
THEOREM LedgerHolds ==
  ASSUME "lease" \notin Stale, "lostDelete" \notin FaultKinds
  PROVE  Spec => ImplementsLedger
  <1>1. Init => Ledger!Init
    <2> SUFFICES ASSUME Init PROVE Ledger!Init
      OBVIOUS
    <2>1. claims = [s \in Slot |-> NoPod]
      BY DEF Init, claims, NoLeases, Absent
    <2>2. \A p \in Pods, s \in Slot : ~Uses(machine[p], s)
      BY DEF Init, Uses, WarmMachine
    <2>3. users = [s \in Slot |-> {}]
      BY <2>2 DEF users
    <2> QED BY <2>1, <2>3 DEF Ledger!Init
  <1>2. Safe /\ Placed /\ [Next]_vars => [Ledger!Next]_<<claims, users>>
    BY StepLedger
  <1> QED BY <1>1, <1>2, SafeHolds, PlacedHolds, PTL DEF Spec, ImplementsLedger, Ledger!Spec

\* A Deployment that is deleted or no longer managed takes nothing away from
\* what is proved: what is left of the system still behaves as LeaseSystem.
THEOREM UnmanagedKeepsSafety == PoolSpec => Spec
  <1>1. PoolInit => Init
    BY DEF PoolInit
  <1>2. [PoolNext]_<<vars, managed>> => [Next]_vars
    BY DEF PoolNext, Unmanage, Next
  <1> QED BY <1>1, <1>2, PTL DEF PoolSpec, Spec

\* With current lease and pod caches and no label patch lost, the Service
\* routes to no pod whose lease has failed or is gone, whatever the two
\* reconcilers, crashes, pod deletions and the operator do in between.
THEOREM HotLabelBackedHolds ==
  ASSUME "lease" \notin Stale, "pod" \notin Stale, "lostPatch" \notin FaultKinds
  PROVE  Spec => []HotLabelBacked
  <1>1. Init => HotInv
    <2> SUFFICES ASSUME Init PROVE HotInv
      OBVIOUS
    <2>1. \A p \in Pods : pod[p].label # "hot"
      BY SystemAssumption DEF Init
    <2>2. gl.pc = "idle"
      BY DEF Init, GLIdle
    <2> QED BY <2>1, <2>2, InitSafe DEF HotInv, HotBacked, HotNone, RevertReads
  <1>2. HotInv /\ Placed /\ [Next]_vars => HotInv'
    <2> SUFFICES ASSUME HotInv, Placed, [Next]_vars PROVE HotInv'
      OBVIOUS
    <2>1. Safe'
      BY NextBase, NextSafe DEF HotInv, Safe
    <2>2. CASE GLNext
      BY <2>1, <2>2, GLUpdatesHot, GLCallsHot DEF GLNext, GLCall
    <2>3. CASE WPNext /\ UNCHANGED gl
      BY <2>1, <2>3, WPHot
    <2>4. CASE Environment
      BY <2>1, <2>4, EnvironmentHot
    <2>5. CASE UNCHANGED vars
      BY <2>1, <2>5 DEF vars, HotInv, HotBacked, HotNone, RevertReads, Backing, Alive
    <2> QED BY <2>2, <2>3, <2>4, <2>5 DEF Next
  <1>3. HotInv => HotLabelBacked
    BY DEF HotInv, HotBacked, Backing, Served, HotLabelBacked
  <1> QED BY <1>1, <1>2, <1>3, PlacedHolds, PTL DEF Spec
=============================================================================
