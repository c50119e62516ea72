-------------------------- MODULE AutoscalerProofs --------------------------
(***************************************************************************)
(* What the scaling loop never does, proved for any number of pods, any    *)
(* demand and any annotations: a typo does not move the demand, promotion  *)
(* does not eat the warm buffer, scale-down spares hot pods, and the loop  *)
(* rests only where the demand is served, and does not flap there.         *)
(***************************************************************************)
EXTENDS Autoscaler, FiniteSetTheorems, WellFoundedInduction, TLAPS

Published(w) == w.gauge = w.value /\ (w.seen.is = "number" => w.gauge = w.seen.rps)

\* What a pod republishes is the last number it was told, the one in front of it
\* if it is a number, and the deletion cost of a pod follows its label: a warm
\* pod is never dearer than 0, a hot one costs 100.
Settled ==
  /\ \A p \in Pods : Published(watcher[p])
  /\ \A p \in Pods : /\ pod[p].st = "warm" => pod[p].cost <= 0
                     /\ pod[p].st = "hot" => pod[p].cost = 100

\* The inductive invariant: the types the theorems need, and the above.
Inv ==
  /\ cm \in ConfigMap /\ anno \in Annotations
  /\ watcher \in [Pods -> Watcher]
  /\ pod \in [Pods -> Pod]
  /\ Settled

\* The parser returns a count that fits an int32, for every annotation.
LEMMA CountInRange ==
  ASSUME NEW raw \in Raw, NEW default \in 0 .. MaxInt32
  PROVE  ParseCount(raw, default, MaxInt32) \in 0 .. MaxInt32
  BY AutoscalerAssumption DEF ParseCount, Raw

\* Both counts are in range in every state.
LEMMA Counts ==
  ASSUME anno \in Annotations
  PROVE  WarmReplicas \in 0 .. MaxInt32 /\ MinHotReplicas \in 0 .. MaxInt32
  BY CountInRange, AutoscalerAssumption DEF WarmReplicas, MinHotReplicas

\* The target is a number of ready pods, and beyond the floor it leaves the warm
\* buffer whole.
LEMMA TargetBounds ==
  ASSUME NEW ready \in Nat, NEW warm \in Nat, NEW floor \in Nat
  PROVE  /\ targetHot(ready, warm, floor) \in 0 .. ready
         /\ \/ targetHot(ready, warm, floor) <= floor
            \/ targetHot(ready, warm, floor) = ready - warm
  BY DEF targetHot

\* The handlers of the watch keep a watcher's type and publish its value.
LEMMA WatcherApplies ==
  ASSUME Demands \subseteq Nat, NEW w \in Watcher, NEW c \in ConfigMap
  PROVE  /\ applyConfigMap(w, c) \in Watcher
         /\ Published(w) => Published(applyConfigMap(w, c))
         /\ w.gauge = w.value /\ c.is # "number" => applyConfigMap(w, c).gauge = w.gauge
  <1>1. c.is \in {"absent", "number", "unusable"} /\ c.rps \in Nat
    BY DEF ConfigMap, Number, NoConfigMap
  <1>2. CASE c.is = "absent"
    <2>1. applyConfigMap(w, c) = [w EXCEPT !.seen = c]
      BY <1>2 DEF applyConfigMap
    <2> QED BY <1>2, <2>1 DEF Watcher, Published
  <1>3. CASE c.is = "number"
    <2>1. applyConfigMap(w, c) = [seen |-> c, value |-> c.rps, gauge |-> c.rps]
      BY <1>3 DEF applyConfigMap
    <2> QED BY <1>1, <1>3, <2>1 DEF Watcher, Published
  <1>4. CASE c.is = "unusable"
    <2>1. applyConfigMap(w, c) = [w EXCEPT !.seen = c, !.gauge = w.value]
      BY <1>4 DEF applyConfigMap
    <2> QED BY Zenon, <1>4, <2>1 DEF Watcher, Published
  <1> QED BY <1>1, <1>2, <1>3, <1>4

\* The smallest of three integers is below each of them.
LEMMA SmallestOfThree ==
  ASSUME NEW a \in Int, NEW b \in Int, NEW c \in Int
  PROVE  /\ Min({a, b, c}) \in Int
         /\ Min({a, b, c}) <= a /\ Min({a, b, c}) <= c
  <1>1. \E n \in {a, b, c} : \A m \in {a, b, c} : n <= m
    OBVIOUS
  <1>2. /\ Min({a, b, c}) \in {a, b, c}
        /\ \A m \in {a, b, c} : Min({a, b, c}) <= m
    BY <1>1 DEF Min
  <1> QED BY <1>2

\* Relabelling some pods, as one reconcile does.
Relabelled(S, st) == [p \in Pods |-> IF p \in S THEN [pod[p] EXCEPT !.st = st] ELSE pod[p]]

\* A reconcile promotes warm pods up to the target, or demotes hot ones.
LEMMA ReconcileShape ==
  ASSUME Reconcile
  PROVE  \/ \E S \in SUBSET In({"warm"}) :
              /\ Cardinality(S) = Min({target - Cardinality(Held), Count({"warm"}), FreeGPUs})
              /\ pod' = Relabelled(S, "activating")
         \/ \E S \in SUBSET In({"hot"}) : pod' = Relabelled(S, "releasing")
         \/ UNCHANGED pod
  BY Zenon DEF Reconcile, Split, Relabelled

\* Every step keeps the invariant.
LEMMA NextInv == ASSUME Inv, [Next]_vars PROVE Inv'
  <1>1. Demands \subseteq Nat
    BY AutoscalerAssumption
  <1>2. NewDemandWatcher \in Watcher /\ Published(NewDemandWatcher)
    BY DEF NewDemandWatcher, Watcher, ConfigMap, NoConfigMap, Published
  <1>3. CASE UNCHANGED <<pod, watcher>> /\ cm' \in ConfigMap /\ anno' \in Annotations
    BY <1>3 DEF Inv, Settled
  <1>4. ASSUME NEW p \in Pods, NEW new \in Pod, SetPod(p, new),
               new.st = "warm" => new.cost <= 0, new.st = "hot" => new.cost = 100,
               UNCHANGED watcher \/ watcher' = [watcher EXCEPT ![p] = NewDemandWatcher]
        PROVE  Inv'
    <2>1. /\ UNCHANGED <<cm, anno>> /\ pod' \in [Pods -> Pod]
          /\ pod'[p] = new /\ \A q \in Pods \ {p} : pod'[q] = pod[q]
      BY <1>4 DEF SetPod, Inv
    <2>2. watcher' \in [Pods -> Watcher] /\ \A q \in Pods : Published(watcher'[q])
      BY <1>2, <1>4 DEF Inv, Settled
    <2>3. \A q \in Pods : /\ pod'[q].st = "warm" => pod'[q].cost <= 0
                          /\ pod'[q].st = "hot" => pod'[q].cost = 100
      BY <1>4, <2>1 DEF Inv, Settled
    <2> QED BY <2>1, <2>2, <2>3 DEF Inv, Settled
  <1>5. ASSUME NEW S \in SUBSET Pods, NEW st \in {"activating", "releasing"},
               pod' = Relabelled(S, st), UNCHANGED <<cm, anno, watcher>>
        PROVE  Inv'
    <2>1. \A p \in Pods : pod'[p] = pod[p] \/ pod'[p] = [pod[p] EXCEPT !.st = st]
      BY <1>5 DEF Relabelled
    <2>2. \A p \in Pods : /\ pod'[p] \in Pod
                          /\ pod'[p].st = "warm" => pod'[p].cost <= 0
                          /\ pod'[p].st = "hot" => pod'[p].cost = 100
      <3> SUFFICES ASSUME NEW p \in Pods
                   PROVE  /\ pod'[p] \in Pod
                          /\ pod'[p].st = "warm" => pod'[p].cost <= 0
                          /\ pod'[p].st = "hot" => pod'[p].cost = 100
        OBVIOUS
      <3>1. CASE pod'[p] = pod[p]
        BY <3>1 DEF Inv, Settled
      <3>2. CASE pod'[p] = [pod[p] EXCEPT !.st = st]
        <4>1. pod[p] \in Pod
          BY DEF Inv
        <4>2. pod'[p] \in Pod /\ pod'[p].st = st
          BY <3>2, <4>1 DEF Pod
        <4> QED BY <4>2
      <3> QED BY <2>1, <3>1, <3>2
    <2>3. pod' \in [Pods -> Pod]
      BY <1>5, <2>2 DEF Relabelled
    <2> QED BY <1>5, <2>2, <2>3 DEF Inv, Settled
  <1>6. CASE EditConfigMap
    BY <1>3, <1>6 DEF EditConfigMap, Edit, Inv
  <1>7. CASE EditAnnotations
    BY <1>3, <1>7 DEF EditAnnotations, Inv
  <1>8. CASE Scale
    BY <1>3, <1>8 DEF Scale, Inv
  <1>9. CASE Reconcile
    <2>1. UNCHANGED <<cm, anno, watcher>>
      BY <1>9 DEF Reconcile
    <2>2. UNCHANGED pod \/ \E S \in SUBSET Pods, st \in {"activating", "releasing"} : pod' = Relabelled(S, st)
      BY <1>9, ReconcileShape DEF In
    <2> QED BY <1>3, <1>5, <2>1, <2>2 DEF Inv
  <1>10. ASSUME NEW p \in Pods,
                CreatePod(p) \/ DeletePod(p) \/ LosePod(p) \/ LeaseBound(p) \/ LeaseFailed(p) \/ LeaseReleased(p)
         PROVE  Inv'
    <2>1. \E new \in {NoPod, [st |-> "warm", cost |-> 0], [st |-> "hot", cost |-> 100],
                       [st |-> "warm", cost |-> -100]} :
            /\ SetPod(p, new)
            /\ UNCHANGED watcher \/ watcher' = [watcher EXCEPT ![p] = NewDemandWatcher]
      BY <1>10 DEF CreatePod, DeletePod, LosePod, RemovePod, LeaseBound, LeaseFailed, LeaseReleased
    <2> QED BY <1>4, <2>1 DEF Pod, NoPod
  <1>11. ASSUME NEW p \in Pods, PodDeliver(p) PROVE Inv'
    <2>1. UNCHANGED <<cm, anno, pod>> /\ watcher' = [watcher EXCEPT ![p] = applyConfigMap(watcher[p], cm)]
      BY <1>11 DEF PodDeliver, Deliver
    <2>2. applyConfigMap(watcher[p], cm) \in Watcher
          /\ Published(applyConfigMap(watcher[p], cm))
      BY <1>1, WatcherApplies DEF Inv, Settled
    <2> QED BY <2>1, <2>2 DEF Inv, Settled
  <1>12. CASE UNCHANGED vars
    BY <1>3, <1>12 DEF vars, Inv
  <1> QED BY <1>6, <1>7, <1>8, <1>9, <1>10, <1>11, <1>12 DEF Next, Work

\* Every reachable state satisfies the invariant.
LEMMA InvHolds == Spec => []Inv
  <1>1. Init => Inv
    <2> SUFFICES ASSUME Init PROVE Inv
      OBVIOUS
    <2>1. NewDemandWatcher \in Watcher /\ Published(NewDemandWatcher)
      BY DEF NewDemandWatcher, Watcher, ConfigMap, NoConfigMap, Published
    <2>2. NoPod \in Pod /\ NoPod.st = "none"
      BY DEF NoPod, Pod
    <2> QED BY <2>1, <2>2 DEF Init, Inv, Settled, ConfigMap
  <1> QED BY <1>1, NextInv, PTL DEF Spec

-----------------------------------------------------------------------------
(* Types *)

\* A finite set of numbers has a largest one: of the sizes of those that had
\* none, the smallest would have a smaller one.
LEMMA LargestNatural ==
  ASSUME NEW S \in SUBSET Nat, S # {}, IsFiniteSet(S)
  PROVE  \E m \in S : \A n \in S : m >= n
  <1> DEFINE HasMax(U) == \E m \in U : \A n \in U : m >= n
             Bad(U) == U # {} /\ IsFiniteSet(U) /\ ~HasMax(U)
             T == {k \in Nat : \E U \in SUBSET Nat : Bad(U) /\ Cardinality(U) = k}
  <1> SUFFICES ASSUME ~HasMax(S) PROVE FALSE
    OBVIOUS
  <1>1. Cardinality(S) \in T
    BY FS_CardinalityType
  <1>2. T \in SUBSET Nat /\ T # {}
    BY <1>1
  <1> HIDE DEF T
  <1>3. PICK k \in T : \A j \in T : k <= j
    <2>1. PICK k \in T : \A j \in T : ~(<<j, k>> \in OpToRel(<, Nat))
      BY <1>2, NatLessThanWellFounded, WFMin
    <2>2. \A j \in T : ~(j < k)
      BY Zenon, <1>2, <2>1 DEF OpToRel
    <2> QED BY <1>2, <2>2
  <1>4. PICK U \in SUBSET Nat : Bad(U) /\ Cardinality(U) = k
    BY DEF T
  <1>5. PICK x \in U : TRUE
    BY Zenon, <1>4
  <1>6. IsFiniteSet(U \ {x}) /\ Cardinality(U \ {x}) = k - 1
    BY <1>4, <1>5, FS_RemoveElement
  <1>7. Cardinality(U \ {x}) \in Nat /\ k \in Nat
    BY <1>2, <1>6, FS_CardinalityType
  <1>8. ~Bad(U \ {x})
    <2>1. ASSUME Bad(U \ {x}) PROVE k - 1 \in T
      BY Zenon, <1>6, <1>7, <2>1 DEF T
    <2> QED BY <1>3, <1>7, <2>1
  <1>9. CASE U \ {x} = {}
    <2>1. \A n \in U : x >= n
      BY <1>9, <1>5
    <2> QED BY <1>4, <1>5, <2>1
  <1>10. CASE HasMax(U \ {x})
    <2>1. PICK m \in U \ {x} : \A n \in U \ {x} : m >= n
      BY <1>10
    <2>2. x \in Nat /\ m \in Nat /\ U \subseteq Nat
      BY <2>1
    <2>3. CASE m >= x
      <3>1. \A n \in U : m >= n
        BY <2>1, <2>2, <2>3
      <3> QED BY <1>4, <2>1, <3>1
    <2>4. CASE x >= m
      <3>1. \A n \in U : x >= n
        BY <2>1, <2>2, <2>4
      <3> QED BY <1>4, <1>5, <3>1
    <2> QED BY <2>2, <2>3, <2>4
  <1> QED BY <1>6, <1>8, <1>9, <1>10

\* The demand that KEDA sees is a number.
LEMMA DemandSeenType ==
  ASSUME Inv
  PROVE  DemandSeen \in Nat
  <1> DEFINE seen == {watcher[p].gauge : p \in Ready}
             f == [p \in Ready |-> watcher[p].gauge]
  <1>1. Ready \subseteq Pods /\ IsFiniteSet(Ready)
    <2>1. Ready \subseteq Pods
      BY DEF Ready, In
    <2> QED BY <2>1, FS_Subset, AutoscalerAssumption
  <1>2. seen \in SUBSET Nat
    BY <1>1 DEF Inv, Watcher
  <1>3. f \in Surjection(Ready, seen)
    BY DEF Surjection
  <1>4. IsFiniteSet(seen)
    BY <1>1, <1>3, FS_Surjection
  <1>5. DemandSeen = IF seen = {} THEN 0 ELSE Max(seen)
    BY DEF DemandSeen
  <1> HIDE DEF seen
  <1>6. ASSUME seen # {} PROVE Max(seen) \in seen
    <2>1. \E m \in seen : \A n \in seen : m >= n
      BY <1>2, <1>4, <1>6, LargestNatural
    <2> QED BY <2>1 DEF Max
  <1> QED BY <1>2, <1>5, <1>6

\* Pods for a demand: enough of them, and not one too many.
LEMMA HotForCovers ==
  ASSUME NEW d \in Nat
  PROVE  /\ HotFor(d) \in Nat
         /\ HotFor(d) * PodCapacityRPS >= d
         /\ (HotFor(d) - 1) * PodCapacityRPS < d
  <1> DEFINE c == PodCapacityRPS
  <1>1. c \in Nat /\ c > 0
    BY AutoscalerAssumption
  <1> HIDE DEF c
  <1>2. ASSUME NEW n \in Nat
        PROVE  /\ n \div c \in Nat
               /\ (n \div c) * c <= n
               /\ n < (n \div c) * c + c
    BY <1>1
  <1>3. d + c - 1 \in Nat
    BY <1>1
  <1>4. HotFor(d) = (d + c - 1) \div c
    BY DEF HotFor, c
  <1>5. /\ HotFor(d) \in Nat
        /\ HotFor(d) * c <= d + c - 1
        /\ d + c - 1 < HotFor(d) * c + c
    BY <1>2, <1>3, <1>4
  <1>6. (HotFor(d) - 1) * c = HotFor(d) * c - c /\ HotFor(d) * c \in Int
    BY <1>1, <1>5
  <1> QED BY <1>1, <1>5, <1>6 DEF c

\* The counters of the loop have their types.
Counters ==
  /\ edits \in 0 .. MaxEdits /\ losses \in 0 .. MaxLosses
  /\ replicas \in Nat /\ warmDesired \in -1 .. MaxInt32

\* What KEDA asks for is a number of pods.
LEMMA DesiredReplicasType ==
  ASSUME Inv, Counters
  PROVE  DesiredReplicas \in Nat
  <1>1. HotFor(DemandSeen) \in Nat
    BY DemandSeenType, HotForCovers
  <1> QED BY <1>1, AutoscalerAssumption DEF DesiredReplicas, Clamp, Counters

\* They are invariant.
LEMMA CountersHold == Spec => []Counters
  <1>1. Init => Counters
    BY AutoscalerAssumption DEF Init, Counters
  <1>2. ASSUME Inv, Counters, [Next]_vars PROVE Counters'
    <2>1. UNCHANGED losses \/ (losses < MaxLosses /\ losses' = losses + 1)
      BY <1>2 DEF Next, Work, vars, EditConfigMap, EditAnnotations, Scale, Reconcile, CreatePod,
                  DeletePod, LosePod, LeaseBound, LeaseFailed, LeaseReleased, PodDeliver
    <2>2. UNCHANGED edits \/ (edits < MaxEdits /\ edits' = edits + 1)
      BY <1>2 DEF Next, Work, vars, EditConfigMap, Edit, EditAnnotations, Scale, Reconcile, CreatePod,
                  DeletePod, LosePod, RemovePod, SetPod, LeaseBound, LeaseFailed, LeaseReleased,
                  PodDeliver, Deliver
    <2>3. UNCHANGED warmDesired \/ warmDesired' = WarmReplicas
      BY <1>2 DEF Next, Work, vars, EditConfigMap, EditAnnotations, Scale, Reconcile, CreatePod,
                  DeletePod, LosePod, RemovePod, SetPod, LeaseBound, LeaseFailed, LeaseReleased, PodDeliver
    <2>4. \/ UNCHANGED replicas
          \/ replicas' = Clamp(DesiredReplicas, replicas - ScaleStep, replicas + ScaleStep)
      BY <1>2 DEF Next, Work, vars, EditConfigMap, EditAnnotations, Scale, Reconcile, CreatePod,
                  DeletePod, LosePod, RemovePod, SetPod, LeaseBound, LeaseFailed, LeaseReleased, PodDeliver
    <2>5. WarmReplicas \in 0 .. MaxInt32
      BY <1>2, Counts DEF Inv
    <2>6. replicas' \in Nat
      BY <1>2, <2>4, DesiredReplicasType, AutoscalerAssumption DEF Counters, Clamp
    <2> QED BY <1>2, <2>1, <2>2, <2>3, <2>5, <2>6, AutoscalerAssumption DEF Counters
  <1> QED BY <1>1, <1>2, InvHolds, PTL DEF Spec

\* The types, for any pods, demands, annotations and bounds: the maximum over
\* the pods' gauges, the rounding and the clamps always leave a replica count,
\* and warm_desired is a count whatever the annotations say.
THEOREM TypeCorrect == Spec => []TypeOK
  <1>1. Inv /\ Counters => TypeOK
    BY DEF Inv, Counters, TypeOK
  <1> QED BY <1>1, InvHolds, CountersHold, PTL

-----------------------------------------------------------------------------
(* Theorems *)

\* For any pods, demands and edits: while the ConfigMap shows no number, neither
\* its edits nor their deliveries move the demand KEDA sees.
THEOREM TyposKeepDemandHolds == Spec => TyposKeepDemand
  <1>1. ASSUME Inv, [Next]_vars, cm.is # "number", Ready' = Ready
        PROVE  DemandSeen' = DemandSeen
    <2>1. SUFFICES \A p \in Ready : watcher'[p].gauge = watcher[p].gauge
      <3>1. {watcher'[p].gauge : p \in Ready'} = {watcher[p].gauge : p \in Ready}
        BY <1>1, <2>1
      <3> QED BY Zenon, <1>1, <3>1 DEF DemandSeen
    <2>2. CASE UNCHANGED watcher
      BY <2>2
    <2>3. ASSUME NEW p \in Pods, PodDeliver(p)
          PROVE  \A q \in Ready : watcher'[q].gauge = watcher[q].gauge
      <3>1. watcher' = [watcher EXCEPT ![p] = applyConfigMap(watcher[p], cm)]
        BY <2>3 DEF PodDeliver, Deliver
      <3>2. applyConfigMap(watcher[p], cm).gauge = watcher[p].gauge
        BY <1>1, WatcherApplies, AutoscalerAssumption DEF Inv, Settled, Published
      <3> QED BY <1>1, <3>1, <3>2 DEF Inv, Ready, In
    <2>4. ASSUME NEW p \in Pods, DeletePod(p) \/ LosePod(p) PROVE FALSE
      <3>1. p \in Ready /\ pod' = [pod EXCEPT ![p] = NoPod]
        BY <2>4 DEF DeletePod, LosePod, RemovePod, SetPod
      <3>2. pod'[p].st = "none"
        BY <1>1, <3>1 DEF Inv, NoPod
      <3> QED BY <1>1, <3>1, <3>2 DEF Ready, In
    <2> QED BY <1>1, <2>2, <2>3, <2>4
            DEF Next, Work, vars, EditConfigMap, Edit, EditAnnotations, Scale, Reconcile,
                CreatePod, LeaseBound, LeaseFailed, LeaseReleased
  <1> QED BY <1>1, InvHolds, PTL DEF Spec, TyposKeepDemand

\* For any pods and annotations: of the pods a scale-down may take, a hot one is
\* taken only when no warm one is left.
THEOREM ScaleDownSparesHotHolds == Spec => ScaleDownSparesHot
  <1>1. ASSUME Inv, Counters, [Next]_vars, NEW p \in Pods,
               pod[p].st = "hot", pod'[p].st = "none", losses' = losses
        PROVE  In({"warm"}) = {}
    <2>1. DeletePod(p)
      <3>1. ASSUME NEW q \in Pods, NEW new, SetPod(q, new), new.st # "none" PROVE FALSE
        BY <1>1, <3>1 DEF SetPod, Inv
      <3>2. ASSUME NEW q \in Pods, CreatePod(q) \/ LeaseBound(q) \/ LeaseReleased(q) PROVE FALSE
        BY <3>1, <3>2 DEF CreatePod, LeaseBound, LeaseReleased
      <3>3. ASSUME NEW q \in Pods, DeletePod(q) PROVE q = p
        BY <1>1, <3>3 DEF DeletePod, RemovePod, SetPod, Inv
      <3>4. ASSUME NEW q \in Pods, LosePod(q) \/ LeaseFailed(q) PROVE FALSE
        <4>1. losses' = losses + 1 /\ losses < MaxLosses
          BY <3>4 DEF LosePod, LeaseFailed
        <4> QED BY <1>1, <4>1 DEF Counters
      <3>5. pod' # pod
        BY <1>1
      <3>6. ~Reconcile
        <4>1. ASSUME NEW S, NEW st \in {"activating", "releasing"}, pod' = Relabelled(S, st)
              PROVE  FALSE
          BY <1>1, <4>1 DEF Relabelled, Inv, Pod
        <4> QED BY <3>5, <4>1, ReconcileShape
      <3> QED BY <1>1, <3>2, <3>3, <3>4, <3>5, <3>6
              DEF Next, Work, vars, EditConfigMap, EditAnnotations, Scale, PodDeliver
    <2>2. \A q \in Ready : pod[p].cost <= pod[q].cost
      BY <2>1 DEF DeletePod
    <2> QED BY <1>1, <2>2 DEF Inv, Settled, In, Ready, Pod
  <1>2. ASSUME Inv, Counters, [Next]_vars
        PROVE  [\A p \in Pods : pod[p].st = "hot" /\ pod'[p].st = "none" /\ losses' = losses =>
                  In({"warm"}) = {}]_vars
    BY <1>1, <1>2
  <1> QED BY <1>2, InvHolds, CountersHold, PTL DEF Spec, ScaleDownSparesHot

\* For any pods, GPUs and annotations: a pod is promoted only while the warm
\* buffer stays whole or the floor of hot pods asks for it.
THEOREM PromotionSparesWarmHolds == Spec => PromotionSparesWarm
  <1> DEFINE held == In({"activating", "hot"})
  <1>1. ASSUME Inv, [Next]_vars, NEW p \in Pods, pod[p].st = "warm", pod'[p].st = "activating"
        PROVE  \/ Cardinality(Ready \ held') >= WarmReplicas
               \/ Cardinality(held') <= MinHotReplicas
    <2>1. Reconcile
      <3>1. pod' # pod
        BY <1>1
      <3>2. ASSUME NEW q \in Pods, NEW new, SetPod(q, new), new.st # "activating" PROVE FALSE
        BY <1>1, <3>2 DEF SetPod, Inv
      <3>3. ASSUME NEW q \in Pods,
                   CreatePod(q) \/ DeletePod(q) \/ LosePod(q) \/ LeaseBound(q) \/ LeaseFailed(q) \/ LeaseReleased(q)
            PROVE  FALSE
        BY <3>2, <3>3 DEF CreatePod, DeletePod, LosePod, RemovePod, NoPod, LeaseBound, LeaseFailed, LeaseReleased
      <3> QED BY <1>1, <3>1, <3>3 DEF Next, Work, vars, EditConfigMap, EditAnnotations, Scale, PodDeliver
    <2> DEFINE ready == Cardinality(Ready)
    <2>2. PICK S \in SUBSET In({"warm"}) :
            /\ Cardinality(S) = Min({target - Cardinality(Held), Count({"warm"}), FreeGPUs})
            /\ pod' = Relabelled(S, "activating")
      <3>1. ASSUME NEW S, pod' = Relabelled(S, "releasing") PROVE FALSE
        BY <1>1, <3>1 DEF Relabelled, Inv, Pod
      <3> QED BY <1>1, <2>1, <3>1, ReconcileShape
    <2>3. /\ IsFiniteSet(Pods) /\ GPUs \in Nat
          /\ WarmReplicas \in Nat /\ MinHotReplicas \in Nat
      BY <1>1, AutoscalerAssumption, Counts DEF Inv
    <2>4. Held \subseteq Ready /\ S \subseteq Ready /\ S \cap Held = {} /\ Ready \subseteq Pods
      BY <2>2 DEF Held, Ready, In
    <2>5. held' = Held \cup S
      BY <1>1, <2>2 DEF Held, In, Relabelled, Inv, Pod
    <2>6. /\ IsFiniteSet(Ready) /\ IsFiniteSet(Held) /\ IsFiniteSet(S)
          /\ \A T : IsFiniteSet(In(T))
      <3>1. \A T : In(T) \subseteq Pods
        BY DEF In
      <3> QED BY <2>3, <2>4, <3>1, FS_Subset
    <2>7. /\ ready \in Nat /\ Cardinality(Held) \in Nat /\ Cardinality(S) \in Nat
          /\ Count({"warm"}) \in Nat /\ FreeGPUs \in Int
      BY <2>3, <2>6, FS_CardinalityType DEF Count, FreeGPUs
    <2>8. Cardinality(held') = Cardinality(Held) + Cardinality(S)
      <3>1. Cardinality(Held \cap S) = 0
        BY <2>4, FS_EmptySet
      <3>2. Cardinality(Held \cup S) = Cardinality(Held) + Cardinality(S) - Cardinality(Held \cap S)
        BY <2>6, FS_Union
      <3>3. Cardinality(Held \cup S) = Cardinality(Held) + Cardinality(S)
        BY <2>7, <3>1, <3>2
      <3> QED BY <2>5, <3>3
    <2>9. target \in 0 .. ready /\ (target <= MinHotReplicas \/ target = ready - WarmReplicas)
      BY Zenon, <2>3, <2>7, TargetBounds DEF target
    <2>10. Cardinality(held') <= target
      <3>1. target - Cardinality(Held) \in Int
        BY <2>7, <2>9
      <3>2. Cardinality(S) <= target - Cardinality(Held)
        BY <2>2, <2>7, <3>1, SmallestOfThree
      <3> QED BY <2>7, <2>8, <2>9, <3>2
    <2>11. Cardinality(Ready \ held') = ready - Cardinality(held')
      <3>1. Ready \cap (Held \cup S) = Held \cup S
        BY <2>4
      <3> QED BY <2>5, <2>6, <3>1, FS_Difference
    <2> QED BY <2>3, <2>7, <2>8, <2>9, <2>10, <2>11
  <1>2. ASSUME Inv, [Next]_vars
        PROVE  [\A p \in Pods : pod[p].st = "warm" /\ pod'[p].st = "activating" =>
                  \/ Cardinality(Ready \ held') >= WarmReplicas
                  \/ Cardinality(held') <= MinHotReplicas]_vars
    BY <1>1, <1>2
  <1> QED BY <1>2, InvHolds, PTL DEF Spec, PromotionSparesWarm
-----------------------------------------------------------------------------
(* The loop at rest *)

\* The pods of one kind are a finite part of the pods, counted by a number.
LEMMA CountType ==
  ASSUME NEW S
  PROVE  In(S) \subseteq Pods /\ IsFiniteSet(In(S)) /\ Count(S) \in Nat
  <1>1. In(S) \subseteq Pods
    BY DEF In
  <1> QED BY <1>1, FS_Subset, FS_CardinalityType, AutoscalerAssumption DEF Count

\* With no lease under way the ready pods are the warm ones and the hot ones,
\* and the held ones are the hot ones.
LEMMA RestCounts ==
  ASSUME In({"activating", "releasing"}) = {}
  PROVE  /\ Cardinality(Ready) = Count({"warm"}) + Count({"hot"})
         /\ Cardinality(Held) = Count({"hot"})
         /\ Count({"activating", "hot", "releasing"}) = Count({"hot"})
  <1>1. /\ Ready = In({"warm"}) \cup In({"hot"}) /\ In({"warm"}) \cap In({"hot"}) = {}
        /\ Held = In({"hot"}) /\ In({"activating", "hot", "releasing"}) = In({"hot"})
    BY DEF Ready, Held, In
  <1>2. Cardinality(In({"warm"}) \cap In({"hot"})) = 0
    BY <1>1, FS_EmptySet
  <1>3. Cardinality(Ready) = Cardinality(In({"warm"})) + Cardinality(In({"hot"})) - 0
    BY <1>1, <1>2, CountType, FS_Union
  <1> QED BY <1>1, <1>3, CountType DEF Count

\* For any constants: a loop at rest is moved by an edit or a loss only.
THEOREM RestIsStableHolds == Spec => RestIsStable
  <1>1. ASSUME Inv, Counters, [Next]_vars, AtRest, UNCHANGED <<edits, losses>>
        PROVE  UNCHANGED <<pod, watcher, replicas, warmDesired>>
    <2>1. ~EditConfigMap /\ ~EditAnnotations
      <3>1. edits' = edits /\ edits \in Int
        BY <1>1 DEF Counters
      <3> QED BY <3>1 DEF EditConfigMap, Edit, EditAnnotations
    <2>2. \A p \in Pods : ~LosePod(p) /\ ~LeaseFailed(p)
      <3>1. losses' = losses /\ losses \in Int
        BY <1>1 DEF Counters
      <3> QED BY <3>1 DEF LosePod, LeaseFailed
    <2>3. CASE Scale
      <3>1. replicas \in Nat /\ DesiredReplicas = replicas
        BY <1>1 DEF Counters, AtRest
      <3>2. replicas' = replicas
        BY <2>3, <3>1, AutoscalerAssumption DEF Scale, Clamp
      <3> QED BY <2>3, <3>2 DEF Scale
    <2>4. CASE Reconcile
      <3>1. UNCHANGED <<watcher, replicas, warmDesired>> /\ Split
        BY <1>1, <2>4 DEF Reconcile, AtRest
      <3>2. /\ Cardinality(Held) = Count({"hot"}) /\ Count({"hot"}) \in Nat /\ Count({"warm"}) \in Nat
            /\ Cardinality(Ready) \in Nat /\ FreeGPUs \in Int
        BY <1>1, RestCounts, CountType, AutoscalerAssumption DEF AtRest, FreeGPUs
      <3>3. target \in Nat
        <4>1. WarmReplicas \in Nat /\ MinHotReplicas \in Nat
          BY <1>1, Counts, AutoscalerAssumption DEF Inv
        <4>2. target \in 0 .. Cardinality(Ready)
          BY Zenon, <3>2, <4>1, TargetBounds DEF target
        <4> QED BY <3>2, <4>2
      <3>4. ASSUME NEW S \in SUBSET In({"warm"}), pod' = Relabelled(S, "activating"),
                   Cardinality(S) = Min({target - Cardinality(Held), Count({"warm"}), FreeGPUs}),
                   Count({"hot"}) < target
            PROVE  pod' = pod
        <4>1. S = {}
          <5>1. CASE In({"warm"}) = {}
            BY <5>1
          <5>2. CASE FreeGPUs <= 0
            <6>1. Min({target - Cardinality(Held), Count({"warm"}), FreeGPUs}) <= FreeGPUs
              <7>1. target - Cardinality(Held) \in Int /\ Count({"warm"}) \in Int
                BY <3>2, <3>3
              <7> DEFINE a == target - Cardinality(Held)
                         b == Count({"warm"})
                         c == FreeGPUs
              <7>2. a \in Int /\ b \in Int /\ c \in Int
                BY <3>2, <7>1
              <7> HIDE DEF a, b, c
              <7>3. Min({a, b, c}) <= c
                BY <7>2, SmallestOfThree
              <7> QED BY <7>3 DEF a, b, c
            <6>2. IsFiniteSet(S) /\ Cardinality(S) \in Nat
              BY CountType, FS_Subset, FS_CardinalityType
            <6>3. Cardinality(S) = 0
              BY <3>2, <3>4, <5>2, <6>1, <6>2
            <6> QED BY <6>2, <6>3, FS_EmptySet
          <5> QED BY <1>1, <3>2, <3>3, <3>4, <5>1, <5>2 DEF AtRest
        <4> QED BY <1>1, <3>4, <4>1 DEF Relabelled, Inv
      <3>5. pod' = pod
        <4>1. Cardinality(Held) <= target
          BY <1>1, <3>2, <3>3 DEF AtRest
        <4>2. \/ /\ Cardinality(Held) < target
                 /\ \E S \in SUBSET In({"warm"}) :
                      /\ Cardinality(S) = Min({target - Cardinality(Held), Count({"warm"}), FreeGPUs})
                      /\ pod' = Relabelled(S, "activating")
              \/ Cardinality(Held) > target
              \/ pod' = pod
          BY Zenon, <3>1 DEF Split, Relabelled
        <4> QED BY <3>2, <3>3, <3>4, <4>1, <4>2
      <3> QED BY <3>1, <3>5
    <2>5. ASSUME NEW p \in Pods, \/ CreatePod(p) \/ DeletePod(p) \/ LeaseBound(p) \/ LeaseReleased(p)
                                 \/ PodDeliver(p)
          PROVE  FALSE
      <3>1. Cardinality(Ready) = replicas /\ replicas \in Nat
        BY <1>1 DEF AtRest, Counters
      <3>2. pod[p].st \notin {"activating", "releasing"}
        BY <1>1 DEF AtRest, In
      <3>3. p \in Ready => watcher[p].seen = cm
        BY <1>1 DEF AtRest
      <3> QED BY <2>5, <3>1, <3>2, <3>3 DEF CreatePod, DeletePod, LeaseBound, LeaseReleased, PodDeliver, Deliver
    <2>6. CASE UNCHANGED vars
      BY <2>6 DEF vars
    <2> QED BY <1>1, <2>1, <2>2, <2>3, <2>4, <2>5, <2>6 DEF Next, Work
  <1>2. ASSUME Inv, Counters, [Next]_vars
        PROVE  [AtRest /\ UNCHANGED <<edits, losses>>
                  => UNCHANGED <<pod, watcher, replicas, warmDesired>>]_vars
    BY <1>1, <1>2
  <1> QED BY <1>2, InvHolds, CountersHold, PTL DEF Spec, RestIsStable

\* For any constants: a loop at rest serves every demand it is sized for, with
\* enough hot pods, none beyond demand and floors, and the warm buffer whole.
THEOREM RestServesHolds == Spec => []RestServes
  <1>1. Inv /\ Counters => RestServes
    <2> SUFFICES ASSUME Inv, Counters, NEW d \in Demands, AtRest, cm = Number(d), Sized(d)
                 PROVE  Serves(d)
      BY DEF RestServes
    <2> DEFINE hot == Count({"hot"})
               few == IF HotFor(d) < MinHotReplicas THEN MinHotReplicas ELSE HotFor(d)
               need == IF few + WarmReplicas < MinReplicas THEN MinReplicas - WarmReplicas ELSE few
    <2>1. d \in Nat /\ PodCapacityRPS \in Nat /\ PodCapacityRPS > 0 /\ MinReplicas \in Nat /\ GPUs \in Nat
      BY AutoscalerAssumption
    <2>2. WarmReplicas \in Nat /\ MinHotReplicas \in Nat /\ HotFor(d) \in Nat
      BY <2>1, Counts, HotForCovers, AutoscalerAssumption DEF Inv
    <2>3. /\ need <= GPUs /\ MinHotReplicas <= MinReplicas /\ MinReplicas <= MaxReplicas
          /\ 1 <= MinReplicas
          /\ HotFor(d) + WarmReplicas <= MaxReplicas \/ HotFor(d) <= MinHotReplicas
      BY <2>1, <2>2 DEF Sized
    <2>4. /\ replicas \in Nat /\ Cardinality(Ready) = replicas /\ replicas = DesiredReplicas
          /\ warmDesired = WarmReplicas /\ In({"activating", "releasing"}) = {}
      BY DEF AtRest, Counters
    <2>5. Ready # {}
      <3>1. replicas >= MinReplicas
        <4>1. HotFor(DemandSeen) \in Nat
          BY DemandSeenType, HotForCovers
        <4> QED BY <2>2, <2>3, <2>4, <4>1, AutoscalerAssumption DEF DesiredReplicas, Clamp
      <3>2. replicas # 0
        BY <2>1, <2>3, <2>4, <3>1
      <3> QED BY <2>4, <3>2, FS_EmptySet
    <2>6. DemandSeen = d
      <3>1. ASSUME NEW p \in Ready PROVE watcher[p].gauge = d
        <4>1. p \in Pods /\ watcher[p].seen = Number(d)
          BY DEF AtRest, Ready, In
        <4> QED BY <4>1 DEF Inv, Settled, Published, Number
      <3>2. {watcher[p].gauge : p \in Ready} = {d}
        BY <2>5, <3>1
      <3>3. Max({d}) = d
        <4>1. \E x \in {d} : \A y \in {d} : x >= y
          BY <2>1
        <4>2. Max({d}) \in {d}
          BY <4>1 DEF Max
        <4> QED BY <4>2
      <3> QED BY Zenon, <3>2, <3>3 DEF DemandSeen
    <2>7. replicas = Clamp(HotFor(d) + WarmReplicas, MinReplicas, MaxReplicas)
      <3>1. warmDesired # -1
        BY <2>2, <2>4
      <3> QED BY <2>4, <2>6, <3>1 DEF DesiredReplicas
    <2>8. target = need /\ (need > MinHotReplicas => replicas = need + WarmReplicas)
      <3>1. target = targetHot(replicas, WarmReplicas, MinHotReplicas)
        BY <2>4 DEF target
      <3> QED BY <2>1, <2>2, <2>3, <2>4, <2>7, <3>1, AutoscalerAssumption DEF targetHot, Clamp
    <2>9. /\ hot \in Nat /\ Count({"warm"}) \in Nat /\ replicas = Count({"warm"}) + hot
          /\ FreeGPUs = GPUs - hot
      BY <2>4, CountType, RestCounts DEF FreeGPUs
    <2>10. In({"warm"}) = {} => Count({"warm"}) = 0
      BY FS_EmptySet DEF Count
    <2>11. target <= replicas /\ target \in Nat
      <3>1. target = targetHot(replicas, WarmReplicas, MinHotReplicas)
        BY <2>4 DEF target
      <3> QED BY <2>2, <2>4, <3>1, TargetBounds
    <2>12. hot = need
      <3>1. \/ hot = target
            \/ hot < target /\ (FreeGPUs <= 0 \/ In({"warm"}) = {})
        BY DEF AtRest
      <3>2. ~(hot < target /\ FreeGPUs <= 0)
        BY <2>1, <2>3, <2>8, <2>9, <2>11
      <3>3. ~(hot < target /\ In({"warm"}) = {})
        BY <2>9, <2>10, <2>11
      <3> QED BY <2>8, <3>1, <3>2, <3>3
    <2>13. hot * PodCapacityRPS >= d
      <3>1. HotFor(d) * PodCapacityRPS >= d /\ hot >= HotFor(d)
        BY <2>1, <2>2, <2>12, HotForCovers
      <3>2. hot * PodCapacityRPS >= HotFor(d) * PodCapacityRPS
        BY <2>1, <2>2, <2>9, <3>1
      <3>3. hot * PodCapacityRPS \in Int /\ HotFor(d) * PodCapacityRPS \in Int
        BY <2>1, <2>2, <2>9
      <3> HIDE DEF hot
      <3> QED BY <2>1, <3>1, <3>2, <3>3
    <2>14. hot > MinHotReplicas => hot = HotFor(d) \/ hot + WarmReplicas = MinReplicas
      BY <2>1, <2>2, <2>9, <2>12
    <2>15. hot > MinHotReplicas => (hot - 1) * PodCapacityRPS < d \/ hot + WarmReplicas = MinReplicas
      <3>1. (HotFor(d) - 1) * PodCapacityRPS < d
        BY <2>1, HotForCovers
      <3> QED BY <2>14, <3>1
    <2>16. Count({"warm"}) = WarmReplicas \/ hot = MinHotReplicas
      BY <2>1, <2>2, <2>4, <2>8, <2>9, <2>12
    <2>17. hot >= MinHotReplicas
      BY <2>1, <2>2, <2>12
    <2> QED BY <2>4, <2>13, <2>15, <2>16, <2>17 DEF Serves
  <1> QED BY <1>1, InvHolds, CountersHold, PTL
=============================================================================
