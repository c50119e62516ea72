----------------------------- MODULE Autoscaler -----------------------------
(***************************************************************************)
(* The scaling loop around one managed Deployment: an operator writes the  *)
(* demand and the annotations, every pod republishes the demand, KEDA (via *)
(* the HPA) picks a replica count from demand and warm buffer, the         *)
(* ReplicaSet creates and deletes pods by deletion cost, and the WarmPool  *)
(* reconciler splits the ready pods into warm and hot.                     *)
(*                                                                         *)
(* One reconcile is one step here, and what lies between promoting a pod   *)
(* and its being hot is one lease that is bound or fails: the modules      *)
(* WarmPoolReconciler and LeaseSystem have the calls and their order.      *)
(***************************************************************************)
EXTENDS DemandWatcher, PoolMath, FiniteSetsExt

CONSTANTS
  Annotations,          \* annotation pairs an operator may write
  DefaultWarmReplicas,  \* 2 in names.go
  DefaultMinHotReplicas,\* 1 in names.go
  MaxInt32,             \* 2^31 - 1 in the code
  PodCapacityRPS,       \* the divisor of the ScaledObject's formula
  MinReplicas, MaxReplicas, ScaleStep,   \* the ScaledObject's bounds and policy
  GPUs,                 \* GPUs on the nodes of the Deployment's pods
  MaxLosses             \* bound: pods lost and leases failed

ASSUME AutoscalerAssumption ==
  /\ IsFiniteSet(Pods) /\ Demands \subseteq Nat /\ MaxEdits \in Nat
  /\ \A a \in Annotations : a.warm \in Raw /\ a.minHot \in Raw
  /\ MaxInt32 \in Nat
  /\ DefaultWarmReplicas \in 0 .. MaxInt32 /\ DefaultMinHotReplicas \in 0 .. MaxInt32
  /\ PodCapacityRPS \in Nat \ {0} /\ MinReplicas \in Nat /\ MaxReplicas \in Nat
  /\ ScaleStep \in Nat \ {0} /\ GPUs \in Nat /\ MaxLosses \in Nat

VARIABLES
  anno,          \* the Deployment's annotations
  pod,           \* each pod: its state label and its deletion cost
  replicas,      \* the Deployment's spec.replicas
  warmDesired,   \* the gauge pool_warm_desired; -1 before the first reconcile
  losses         \* pods lost and leases failed so far

vars == <<cm, edits, watcher, anno, pod, replicas, warmDesired, losses>>

\* "none" is a name without a pod.  A pod that is not Ready yet is one the
\* ReplicaSet still has to create.
Pod == [st : {"none", "warm", "activating", "hot", "releasing"}, cost : {-100, 0, 100}]

NoPod == [st |-> "none", cost |-> 0]

In(S) == {p \in Pods : pod[p].st \in S}

Ready == In({"warm", "activating", "hot", "releasing"})

\* Mutant: a pod that is still warming up does not count as held.
HeldHotOnly == In({"hot"})

Held == In({"activating", "hot"})

Count(S) == Cardinality(In(S))

\* ParseDeploymentSettings, for the two counts the pool is steered by.
WarmReplicas == ParseCount(anno.warm, DefaultWarmReplicas, MaxInt32)

MinHotReplicas == ParseCount(anno.minHot, DefaultMinHotReplicas, MaxInt32)

Init ==
  /\ cm = NoConfigMap /\ edits = 0
  /\ watcher = [p \in Pods |-> NewDemandWatcher]
  /\ anno \in Annotations
  /\ pod = [p \in Pods |-> NoPod]
  /\ replicas = MinReplicas
  /\ warmDesired = -1
  /\ losses = 0

-----------------------------------------------------------------------------
(* The operator, KEDA and the ReplicaSet *)

EditConfigMap == Edit /\ UNCHANGED <<anno, pod, replicas, warmDesired, losses>>

EditAnnotations ==
  /\ edits < MaxEdits /\ edits' = edits + 1
  /\ \E a \in Annotations \ {anno} : anno' = a
  /\ UNCHANGED <<cm, watcher, pod, replicas, warmDesired, losses>>

\* The demand query: max over the pods' gauges, or vector(0).
DemandSeen ==
  LET seen == {watcher[p].gauge : p \in Ready}
  IN IF seen = {} THEN 0 ELSE Max(seen)

Clamp(n, lo, hi) == IF n < lo THEN lo ELSE IF n > hi THEN hi ELSE n

\* Mutant: the formula rounds down.
HotForRoundedDown(d) == d \div PodCapacityRPS

\* The pods that demand d takes: ceil(d / capacity).
HotFor(d) == (d + PodCapacityRPS - 1) \div PodCapacityRPS

\* They and warm_desired, which is vector(2), the default, before the controller
\* has published it.
DesiredReplicas ==
  LET warm == IF warmDesired = -1 THEN DefaultWarmReplicas ELSE warmDesired
  IN Clamp(HotFor(DemandSeen) + warm, MinReplicas, MaxReplicas)

Scale ==
  /\ UNCHANGED <<cm, edits, watcher, anno, pod, warmDesired, losses>>
  /\ replicas' = Clamp(DesiredReplicas, replicas - ScaleStep, replicas + ScaleStep)

SetPod(p, new) ==
  /\ pod' = [pod EXCEPT ![p] = new]
  /\ UNCHANGED <<cm, edits, anno, replicas, warmDesired>>

\* The template carries the warm label and no deletion cost.
CreatePod(p) ==
  /\ pod[p] = NoPod /\ Cardinality(Ready) < replicas
  /\ SetPod(p, [st |-> "warm", cost |-> 0])
  /\ UNCHANGED <<watcher, losses>>

RemovePod(p) == SetPod(p, NoPod) /\ watcher' = [watcher EXCEPT ![p] = NewDemandWatcher]

\* Of the Ready pods those of the lowest deletion cost go first.
DeletePod(p) ==
  /\ p \in Ready /\ Cardinality(Ready) > replicas
  /\ \A q \in Ready : pod[p].cost <= pod[q].cost
  /\ RemovePod(p) /\ UNCHANGED losses

\* A pod is lost (its node fails, it is evicted); its lease goes with it.
LosePod(p) ==
  /\ p \in Ready /\ losses < MaxLosses /\ losses' = losses + 1
  /\ RemovePod(p)

-----------------------------------------------------------------------------
(* The controllers *)

FreeGPUs == GPUs - Count({"activating", "hot", "releasing"})

target == targetHot(Cardinality(Ready), WarmReplicas, MinHotReplicas)

\* Compare the held pods with the target, and promote warm pods, as far as GPUs
\* are free, or demote hot ones.  Both patch the state label only.
Split ==
  LET held == Cardinality(Held)
      up == Min({target - held, Count({"warm"}), FreeGPUs})
      down == Min({held - target, Count({"hot"})})
      relabelled(S, st) == [p \in Pods |-> IF p \in S THEN [pod[p] EXCEPT !.st = st] ELSE pod[p]]
  IN \/ /\ held < target
        /\ \E S \in SUBSET In({"warm"}) :
             Cardinality(S) = up /\ pod' = relabelled(S, "activating")
     \/ /\ held > target
        /\ \E S \in SUBSET In({"hot"}) :
             Cardinality(S) = down /\ pod' = relabelled(S, "releasing")
     \/ held = target /\ UNCHANGED pod

\* Mutant: the warm pods there are get published, not those desired.
ReconcilePublishesWarm ==
  /\ UNCHANGED <<cm, edits, watcher, anno, replicas, losses>>
  /\ warmDesired' = Count({"warm"})
  /\ Split

\* Reconcile: publish warm_desired and split the ready pods.
Reconcile ==
  /\ UNCHANGED <<cm, edits, watcher, anno, replicas, losses>>
  /\ warmDesired' = WarmReplicas
  /\ Split

\* Mutant: markPodHot patches the label only.
LeaseBoundKeepsCost(p) ==
  /\ pod[p].st = "activating"
  /\ SetPod(p, [pod[p] EXCEPT !.st = "hot"])
  /\ UNCHANGED <<watcher, losses>>

\* markPodHot
LeaseBound(p) ==
  /\ pod[p].st = "activating"
  /\ SetPod(p, [st |-> "hot", cost |-> 100])
  /\ UNCHANGED <<watcher, losses>>

\* revertPodToWarm, when a promotion fails ...
LeaseFailed(p) ==
  /\ pod[p].st = "activating" /\ losses < MaxLosses /\ losses' = losses + 1
  /\ SetPod(p, [st |-> "warm", cost |-> -100])
  /\ UNCHANGED watcher

\* ... and when a demoted pod has been released.
LeaseReleased(p) ==
  /\ pod[p].st = "releasing"
  /\ SetPod(p, [st |-> "warm", cost |-> -100])
  /\ UNCHANGED <<watcher, losses>>

PodDeliver(p) ==
  p \in Ready /\ Deliver(p) /\ UNCHANGED <<anno, pod, replicas, warmDesired, losses>>

\* What the cluster owes: replicas, settled leases and delivered watches.
Work == \E p \in Pods : \/ CreatePod(p) \/ DeletePod(p)
                        \/ LeaseBound(p) \/ LeaseReleased(p)
                        \/ PodDeliver(p)

Next ==
  \/ EditConfigMap \/ EditAnnotations \/ Scale \/ Reconcile \/ Work
  \/ \E p \in Pods : LosePod(p) \/ LeaseFailed(p)

\* KEDA polls, the reconciler runs again at every event and after its resync
\* period, and the cluster does not stop working.
Fairness == WF_vars(Scale) /\ WF_vars(Reconcile) /\ WF_vars(Work)

Spec == Init /\ [][Next]_vars /\ Fairness
-----------------------------------------------------------------------------
(* Properties *)

\* The types; warm_desired, which steers KEDA, is published as a count whatever
\* the annotations say.
TypeOK ==
  /\ cm \in ConfigMap /\ edits \in 0 .. MaxEdits
  /\ watcher \in [Pods -> Watcher]
  /\ anno \in Annotations
  /\ pod \in [Pods -> Pod]
  /\ replicas \in Nat
  /\ warmDesired \in -1 .. MaxInt32
  /\ losses \in 0 .. MaxLosses

\* The loop as a whole: once demand d stands in the ConfigMap, the hot pods'
\* capacity covers it, no GPU is held beyond the demand, the floor of hot pods and
\* the floor of replicas, and the warm buffer is full unless the floor of hot pods
\* takes from it.
Serves(d) ==
  LET hot == Count({"hot"})
  IN /\ hot * PodCapacityRPS >= d
     /\ hot >= MinHotReplicas
     /\ hot > MinHotReplicas =>
          (hot - 1) * PodCapacityRPS < d \/ hot + WarmReplicas = MinReplicas
     /\ Count({"warm"}) = WarmReplicas \/ hot = MinHotReplicas
     /\ In({"activating", "releasing"}) = {}

\* The Deployment is sized for demand d: there are GPUs for it and for the two
\* floors, and the ScaledObject's bounds leave room.
Sized(d) ==
  LET hot == HotFor(d)
  IN /\ \A n \in {hot, MinHotReplicas, MinReplicas - WarmReplicas} : n <= GPUs
     /\ 1 <= MinReplicas /\ MinHotReplicas <= MinReplicas /\ MinReplicas <= MaxReplicas
     /\ hot + WarmReplicas <= MaxReplicas \/ hot <= MinHotReplicas

\* Whatever was delivered late, lost or mistyped before: once the operators stop
\* (edits are bounded), the demand in the ConfigMap ends up served, exactly, by
\* the split of hot and warm pods the design asks for.
DemandServed == <>[](\A d \in Demands : cm = Number(d) /\ Sized(d) => Serves(d))

\* Nobody in the loop has anything left to do: the pods know the ConfigMap, the
\* gauge and the replica count are what their writers compute, no lease is
\* under way, and as many pods are hot as the target says or GPUs and pods allow.
AtRest ==
  /\ \A p \in Ready : watcher[p].seen = cm
  /\ warmDesired = WarmReplicas
  /\ replicas = DesiredReplicas /\ Cardinality(Ready) = replicas
  /\ In({"activating", "releasing"}) = {}
  /\ \/ Count({"hot"}) = target
     \/ Count({"hot"}) < target /\ (FreeGPUs <= 0 \/ In({"warm"}) = {})

\* The loop does not come to rest in a wrong place: KEDA's count, the warm
\* buffer, the floor of hot pods and the GPUs agree only when the demand is
\* served.
RestServes == \A d \in Demands : AtRest /\ cm = Number(d) /\ Sized(d) => Serves(d)

\* And it stays there: KEDA, ReplicaSet, reconciler and pods do not flap, so only
\* an edit or a loss moves a loop at rest.
RestIsStable ==
  [][AtRest /\ UNCHANGED <<edits, losses>> => UNCHANGED <<pod, watcher, replicas, warmDesired>>]_vars

\* A typo in the ConfigMap, a removed key or a deleted ConfigMap never changes
\* the demand KEDA sees: only a number does, or the loss of a pod.
TyposKeepDemand ==
  [][cm.is # "number" /\ Ready' = Ready => DemandSeen' = DemandSeen]_vars

\* Promotion does not eat the warm buffer: a pod is promoted only if enough
\* warm (or returning) pods stay behind, or the floor of hot pods demands it.
PromotionSparesWarm ==
  [][\A p \in Pods : pod[p].st = "warm" /\ pod'[p].st = "activating" =>
       \/ Cardinality(Ready \ In({"activating", "hot"})') >= WarmReplicas
       \/ Cardinality(In({"activating", "hot"})') <= MinHotReplicas]_vars

\* What the deletion cost is for: the ReplicaSet takes a hot pod only when no
\* warm one is left.
ScaleDownSparesHot ==
  [][\A p \in Pods : pod[p].st = "hot" /\ pod'[p].st = "none" /\ losses' = losses =>
       In({"warm"}) = {}]_vars
=============================================================================
