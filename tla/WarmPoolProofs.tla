--------------------------- MODULE WarmPoolProofs ---------------------------
(***************************************************************************)
(* The WarmPool worker preserves Base, Placed and Gated, and moves a lease *)
(* only along the edges of its state machine.                              *)
(***************************************************************************)
EXTENDS LeaseInvariant

\* What decide counts are numbers, which LeaseTheorems shows of every state.
Counts == NodeFreeCounts \in [Nodes -> Nat] /\ held \in Nat /\ target \in Int

\* What a sweep of lease s leaves of the worker's state.
LEMMA SweptStep ==
  ASSUME TypeOK, NEW s \in Slot
  PROVE  /\ Swept(s) \in WPState /\ Swept(s).pc = "sweep"
         /\ Swept(s).leases = [wp.leases EXCEPT ![s] = Absent]
  <1>1. wp \in WPState /\ wp.leases \in [Slot -> LeaseObj]
    BY DEF TypeOK, WPState
  <1>2. [wp.leases EXCEPT ![s] = Absent] \in [Slot -> LeaseObj]
    BY <1>1, Objects
  <1>3. Swept(s) = [wp EXCEPT !.pc = "sweep", !.leases = [wp.leases EXCEPT ![s] = Absent],
                              !.slot = NoLease]
    BY <1>1 DEF Swept, WPState
  <1> QED BY Zenon, <1>1, <1>2, <1>3 DEF WPState, WPPc

\* A DELETE by the worker, which then holds no current copy of the lease.
LEMMA WPDeleteBase ==
  ASSUME Base, UNCHANGED <<gl, cache, pod, machine, faults>>, NEW s \in Slot, DeleteLease(s),
         wp' \in WPState, WPPlan',
         "wp" \in current[s] => wp.leases[s].phase # "none" /\ ~wp.leases[s].del,
         \A t \in Slot \ {s} : "wp" \in current[t] =>
           wp'.pc \in {"sweep", "deleteFailed"} /\ wp'.leases[t] = wp.leases[t]
  PROVE  Base' /\ LeaseSteps
  <1>1. TypeOK'
    BY DeleteLeaseType DEF Base, TypeOK
  <1>2. CASE UNCHANGED <<lease, current, wl>> /\ (~Exists(s) \/ lease[s].del)
    <2>1. "wp" \notin current[s]
      BY <1>2 DEF Base, Copies, Exists
    <2>2. Copies'
      BY <1>2, <2>1 DEF Base, Copies, Exists
    <2> QED BY <1>1, <1>2, <2>2, NoLeaseStep DEF Base, GLPlan, FinalizerKept, Exists
  <1>3. ASSUME NEW new \in LeaseObj, PutLease(s, new, {}), LeaseStep(lease[s], new),
               new.phase # "none" => new.fin
        PROVE  Base' /\ LeaseSteps
    <2>1. lease' = [lease EXCEPT ![s] = new] /\ current' = [current EXCEPT ![s] = {}]
      BY <1>3 DEF PutLease
    <2>2. Copies' /\ GLPlan' /\ FinalizerKept' /\ LeaseSteps
      BY Zenon, <1>3, <2>1, WPWriteBase
    <2> QED BY <1>1, <2>2 DEF Base
  <1> QED BY <1>2, <1>3, DeleteLeaseStep

\* A step that writes no lease and leaves the worker with no current copy.
LEMMA WPIdleBase ==
  ASSUME Base, UNCHANGED <<gl, lease, cache>>, TypeOK', WPPlan',
         \A t \in Slot : "wp" \notin current'[t] /\ current'[t] \subseteq current[t]
  PROVE  Base' /\ LeaseSteps
  <1>1. Copies'
    BY DEF Base, Copies, Exists
  <1> QED BY <1>1, NoLeaseStep DEF Base, GLPlan, FinalizerKept, Exists

\* A step that ends the reconcile.
LEMMA WPReturnBase ==
  ASSUME Base, UNCHANGED <<gl, lease, cache, wl, pod, machine>>, WPReturn, faults' \in 0 .. MaxFaults
  PROVE  Base' /\ LeaseSteps
  <1>1. current \in [Slot -> SUBSET Holder]
    BY DEF Base, TypeOK
  <1>2. current' \in [Slot -> SUBSET Holder]
        /\ \A t \in Slot : "wp" \notin current'[t] /\ current'[t] \subseteq current[t]
    BY <1>1 DEF WPReturn
  <1>3. wp' = WPIdle /\ wp'.pc = "idle"
    BY DEF WPReturn, WPIdle
  <1>4. TypeOK'
    BY <1>2, <1>3, IdleWorkers DEF Base, TypeOK
  <1>5. WPPlan'
    BY <1>3 DEF WPPlan
  <1> QED BY <1>2, <1>4, <1>5, WPIdleBase

\* The worker done with one lease of the sweep still has the others as listed.
LEMMA SweptPlan ==
  ASSUME Base, NEW s \in Slot, wp.pc \in {"sweep", "deleteFailed"}
  PROVE  /\ \A t \in Slot : ~Swept(s).leases[t].del
         /\ \A t \in Slot \ {s} : Swept(s).leases[t] = wp.leases[t]
         /\ "wp" \in current[s] => wp.leases[s].phase # "none" /\ ~wp.leases[s].del
         /\ wp' = Swept(s) => wp' \in WPState /\ WPPlan' /\ wp'.pc = "sweep"
  <1>1. wp.leases \in [Slot -> LeaseObj]
    BY DEF Base, TypeOK, WPState
  <1>2. \A t \in Slot : Swept(s).leases[t] = IF t = s THEN Absent ELSE wp.leases[t]
    BY Zenon, <1>1, SweptStep DEF Base
  <1>3. ~Absent.del
    BY DEF Absent
  <1>4. \A t \in Slot : ~Swept(s).leases[t].del
    BY <1>2, <1>3 DEF Base, WPPlan
  <1>5. "wp" \in current[s] => wp.leases[s].phase # "none" /\ ~wp.leases[s].del
    BY DEF Base, WPPlan, Copies, Exists
  <1>6. wp' = Swept(s) => wp' \in WPState /\ WPPlan' /\ wp'.pc = "sweep"
    BY Zenon, <1>4, SweptStep DEF WPPlan, Base
  <1> QED BY <1>2, <1>4, <1>5, <1>6

\* An orphaned lease is deleted.
LEMMA deleteOrphanBase ==
  ASSUME Base, UNCHANGED gl, NEW s \in Slot, deleteOrphan(s)
  PROVE  Base' /\ LeaseSteps
  <1>b. UNCHANGED <<cache, pod, machine, faults>>
    BY DEF deleteOrphan
  <1>1. wp.pc \in {"sweep", "deleteFailed"} /\ wp' = Swept(s) /\ DeleteLease(s)
    BY DEF deleteOrphan, Listed
  <1> QED BY <1>b, SweptPlan, <1>1, WPDeleteBase

\* A Failed lease is deleted.
LEMMA deleteFailedLeaseBase ==
  ASSUME Base, UNCHANGED gl, deleteFailedLease
  PROVE  Base' /\ LeaseSteps
  <1>b. UNCHANGED <<cache, pod, machine, faults>>
    BY DEF deleteFailedLease
  <1>1. wp.slot \in Slot
    BY DEF deleteFailedLease, Base, WPPlan
  <1>2. wp.pc \in {"sweep", "deleteFailed"} /\ wp' = Swept(wp.slot) /\ DeleteLease(wp.slot)
    BY DEF deleteFailedLease
  <1> QED BY <1>b, SweptPlan, <1>1, <1>2, WPDeleteBase

\* A lease is left alone.
LEMMA keepLeaseBase ==
  ASSUME Base, UNCHANGED gl, NEW s \in Slot, keepLease(s)
  PROVE  Base' /\ LeaseSteps
  <1>a. /\ wp \in WPState /\ wp.leases \in [Slot -> LeaseObj]
        /\ lease \in [Slot -> LeaseObj] /\ current \in [Slot -> SUBSET Holder]
    BY DEF Base, TypeOK, WPState
  <1>b. UNCHANGED <<cache, pod, machine, faults>>
    BY DEF keepLease
  <1>1. wp.pc = "sweep" /\ wp' = Swept(s) /\ UNCHANGED <<lease, wl>>
        /\ current' = [current EXCEPT ![s] = current[s] \ {"wp"}]
    BY DEF keepLease, Listed
  <1>2. wp' \in WPState /\ WPPlan' /\ wp'.pc = "sweep"
    BY SweptPlan, <1>1
  <1>3. \A t \in Slot : current'[t] = IF t = s THEN current[t] \ {"wp"} ELSE current[t]
    BY <1>a, <1>1
  <1>4. current' \in [Slot -> SUBSET Holder]
    BY <1>a, <1>1
  <1>5. TypeOK'
    BY <1>b, <1>1, <1>2, <1>4 DEF Base, TypeOK
  <1>6. \A t \in Slot : "wp" \in current'[t] => t # s /\ wp'.leases[t] = wp.leases[t]
    <2>1. \A t \in Slot \ {s} : wp'.leases[t] = wp.leases[t]
      BY SweptPlan, <1>1
    <2> QED BY Zenon, <1>3, <2>1
  <1>7. \A t \in Slot : current'[t] \subseteq current[t]
    BY Zenon, <1>3
  <1>8. Copies'
    BY <1>b, <1>1, <1>2, <1>6, <1>7 DEF Base, Copies, Exists
  <1> QED BY <1>1, <1>2, <1>5, <1>8, NoLeaseStep DEF Base, GLPlan, FinalizerKept, Exists

\* The finalizer of a Failed lease is stripped.
LEMMA reclaimFailedLeaseBase ==
  ASSUME Base, UNCHANGED gl, NEW s \in Slot, reclaimFailedLease(s)
  PROVE  Base' /\ LeaseSteps
  <1>a. /\ wp \in WPState /\ wp.leases \in [Slot -> LeaseObj]
        /\ lease \in [Slot -> LeaseObj] /\ current \in [Slot -> SUBSET Holder]
    BY DEF Base, TypeOK, WPState
  <1>b. UNCHANGED <<cache, pod, machine, faults>>
    BY DEF reclaimFailedLease
  <1>1. wp.pc = "sweep" /\ wp.leases[s].phase = "Failed" /\ wp.leases[s] \in LeaseObj
    BY <1>a DEF reclaimFailedLease, Listed
  <1>2. wp.leases[s] \in Stored
    BY <1>1, LeaseEdit
  <1>3. CASE ~wp.leases[s].fin
    <2>1. wp' = [wp EXCEPT !.pc = "deleteFailed", !.slot = s] /\ UNCHANGED <<lease, wl, current>>
      BY <1>3 DEF reclaimFailedLease
    <2>2. wp' \in WPState /\ wp'.pc = "deleteFailed" /\ wp'.leases = wp.leases /\ wp'.slot = s
      BY Zenon, <1>a, <2>1 DEF WPState, WPPc
    <2>3. TypeOK'
      BY <1>b, <2>1, <2>2 DEF Base, TypeOK
    <2>4. WPPlan'
      BY <1>1, <2>2 DEF Base, WPPlan
    <2>5. Copies'
      BY <1>b, <2>1, <2>2 DEF Base, Copies, Exists
    <2> QED BY <2>1, <2>3, <2>4, <2>5, NoLeaseStep DEF Base, GLPlan, FinalizerKept, Exists
  <1>4. CASE wp.leases[s].fin /\ "wp" \in current[s]
    <2> DEFINE new == [wp.leases[s] EXCEPT !.fin = FALSE]
    <2>1. new \in LeaseObj /\ new \in Stored /\ new.phase = "Failed" /\ ~new.del
          /\ new.claim = wp.leases[s].claim
      BY Zenon, <1>1, <1>2 DEF Base, WPPlan, LeaseObj, Stored
    <2>2. /\ PutLease(s, new, {"wp"})
          /\ wp' = [wp EXCEPT !.pc = "deleteFailed", !.slot = s, !.leases[s].fin = FALSE]
      BY <1>4 DEF reclaimFailedLease
    <2> DEFINE leases == [wp.leases EXCEPT ![s] = new]
    <2>3. leases \in [Slot -> LeaseObj] /\ \A t \in Slot : leases[t] = IF t = s THEN new ELSE wp.leases[t]
      BY <1>a, <2>1
    <2>4. wp' = [wp EXCEPT !.pc = "deleteFailed", !.slot = s, !.leases = leases]
      BY <1>a, <2>2 DEF WPState
    <2> HIDE DEF new, leases
    <2>5. wp' \in WPState /\ wp'.pc = "deleteFailed" /\ wp'.slot = s /\ wp'.leases = leases
      BY Zenon, <1>a, <2>3, <2>4 DEF WPState, WPPc
    <2>6. WPPlan'
      BY <1>1, <2>1, <2>3, <2>5 DEF Base, WPPlan
    <2>7. lease[s] = wp.leases[s]
      BY <1>4 DEF Base, Copies
    <2>8. LeaseStep(lease[s], new)
      BY <1>1, <2>1, <2>6, <2>7 DEF LeaseStep, Base, WPPlan
    <2>9. lease' = [lease EXCEPT ![s] = new] /\ current' = [current EXCEPT ![s] = {"wp"}]
      BY <2>2 DEF PutLease
    <2>10. Copies' /\ GLPlan' /\ FinalizerKept' /\ LeaseSteps
      BY Zenon, <1>b, <2>1, <2>3, <2>5, <2>8, <2>9, WPWriteBase
    <2>11. {"wp"} \in SUBSET Holder
      BY DEF Holder
    <2>12. TypeOK'
      BY <1>b, <2>1, <2>2, <2>5, <2>11, PutLeaseType DEF Base, TypeOK
    <2> QED BY <2>6, <2>10, <2>12 DEF Base
  <1>5. CASE wp.leases[s].fin /\ "wp" \notin current[s] /\ ~Exists(s)
    <2>1. wp' = Swept(s) /\ UNCHANGED <<lease, wl, current>>
      BY <1>5 DEF reclaimFailedLease
    <2>2. wp' \in WPState /\ WPPlan' /\ wp'.pc = "sweep"
      BY SweptPlan, <1>1, <2>1
    <2>3. TypeOK'
      BY <1>b, <2>1, <2>2 DEF Base, TypeOK
    <2>4. Copies'
      <3>1. \A t \in Slot \ {s} : wp'.leases[t] = wp.leases[t]
        BY SweptPlan, <1>1, <2>1
      <3>2. \A t \in Slot : "wp" \in current'[t] => "wp" \in current[t] /\ wp'.leases[t] = wp.leases[t]
        BY <1>5, <2>1, <3>1
      <3> QED BY <1>b, <2>1, <2>2, <3>2 DEF Base, Copies, Exists
    <2> QED BY <2>1, <2>2, <2>3, <2>4, NoLeaseStep DEF Base, GLPlan, FinalizerKept, Exists
  <1>6. CASE wp.leases[s].fin /\ "wp" \notin current[s] /\ Exists(s)
    <2>1. WPReturn /\ UNCHANGED <<lease, wl>>
      BY <1>6 DEF reclaimFailedLease
    <2> QED BY <1>b, <2>1, WPReturnBase DEF Base, TypeOK
  <1> QED BY <1>3, <1>4, <1>5, <1>6

\* The leases are listed.
LEMMA listLeasesBase ==
  ASSUME Base, UNCHANGED gl, listLeases
  PROVE  Base' /\ LeaseSteps
  <1>a. /\ wp \in WPState /\ wp.leases \in [Slot -> LeaseObj]
        /\ lease \in [Slot -> LeaseObj] /\ current \in [Slot -> SUBSET Holder]
    BY DEF Base, TypeOK, WPState
  <1>b. UNCHANGED <<cache, pod, machine, faults>>
    BY DEF listLeases
  <1> DEFINE todo == {s \in Slot : SeenLease(s).phase # "none" /\ ~SeenLease(s).del}
             leases == [s \in Slot |-> IF s \in todo THEN SeenLease(s) ELSE Absent]
  <1>1. /\ wp' = [WPIdle EXCEPT !.pc = "sweep", !.leases = leases]
        /\ current' = Copied("wp", todo) /\ wp.pc = "idle" /\ UNCHANGED <<lease, wl>>
    BY DEF listLeases
  <1>2. leases \in [Slot -> LeaseObj] /\ \A s \in Slot : ~leases[s].del
    BY SeenType, Objects DEF Base, Absent
  <1>3. wp' \in WPState /\ wp'.pc = "sweep" /\ wp'.leases = leases
    BY Zenon, <1>1, <1>2, IdleWorkers DEF WPState, WPPc
  <1>4. WPPlan'
    BY <1>2, <1>3 DEF WPPlan
  <1>5. TypeOK'
    BY <1>b, <1>1, <1>3, CopiedType DEF Base, TypeOK, Holder
  <1>6. ASSUME NEW t \in Slot
        PROVE  /\ "cache" \in current'[t] => "cache" \in current[t]
               /\ "gl" \in current'[t] => "gl" \in current[t]
               /\ "wp" \in current'[t] => leases[t] = lease[t] /\ Exists(t)
    <2>1. "wp" \notin current[t]
      BY <1>1 DEF Base, Copies
    <2>2. \/ current'[t] = current[t]
          \/ current'[t] = current[t] \ {"wp"}
          \/ current'[t] = current[t] \cup {"wp"} /\ t \in todo /\ ("lease" \in Stale => "cache" \in current[t])
      BY <1>1 DEF Copied
    <2>3. ("lease" \in Stale => "cache" \in current[t]) => SeenLease(t) = lease[t]
      BY SeenCurrent
    <2>4. t \in todo => leases[t] = SeenLease(t) /\ SeenLease(t).phase # "none"
      OBVIOUS
    <2> HIDE DEF todo, leases
    <2>5. "wp" \in current'[t] => leases[t] = lease[t] /\ Exists(t)
      BY <2>1, <2>2, <2>3, <2>4 DEF Exists
    <2>6. ("cache" \in current'[t] => "cache" \in current[t]) /\ ("gl" \in current'[t] => "gl" \in current[t])
      BY <2>2
    <2> QED BY <2>5, <2>6
  <1> HIDE DEF todo, leases
  <1>7. Copies'
    BY <1>b, <1>1, <1>3, <1>6 DEF Base, Copies, Exists
  <1> QED BY <1>1, <1>4, <1>5, <1>7, NoLeaseStep DEF Base, GLPlan, FinalizerKept, Exists

\* The sweep of Failed and orphaned leases.
LEMMA SweepBase ==
  ASSUME Base, UNCHANGED gl,
         \/ listLeases
         \/ \E s \in Slot : reclaimFailedLease(s) \/ deleteOrphan(s) \/ keepLease(s)
         \/ deleteFailedLease
  PROVE  Base' /\ LeaseSteps
  BY listLeasesBase, reclaimFailedLeaseBase, deleteOrphanBase, keepLeaseBase, deleteFailedLeaseBase

\* Outside the sweep the worker holds no copy it could update.
LEMMA NoCopies ==
  ASSUME Base, wp.pc \notin {"sweep", "deleteFailed"}
  PROVE  \A t \in Slot : "wp" \notin current[t]
  BY DEF Base, Copies

\* The plans decide makes are well typed.
LEMMA PlanType ==
  ASSUME TypeOK, Counts
  PROVE  /\ PlanPromotion \in WPState /\ PlanPromotion.pc \in {"idle", "promote"}
         /\ PlanDemotion \in WPState /\ PlanDemotion.pc \in {"idle", "demote"}
  <1>1. target - held \in Int /\ held - target \in Int /\ NodeFreeCounts \in [Nodes -> Nat]
    BY DEF Counts
  <1>2. [s \in Slot |-> SeenLease(s)] \in [Slot -> LeaseObj]
    BY SeenType
  <1>3. WPIdle \in WPState /\ WPIdle.pc = "idle"
    BY IdleWorkers DEF WPIdle
  <1>4. PlanPromotion \in WPState /\ PlanPromotion.pc \in {"idle", "promote"}
    <2> DEFINE cands == {p \in Considered({"warm"}) : NodeFreeCounts[NodeOf[p]] > 0}
               plan == [WPIdle EXCEPT !.pc = "promote", !.cands = cands, !.free = NodeFreeCounts,
                                      !.need = target - held]
    <2>1. cands \in SUBSET Pods
      BY DEF Considered
    <2>2. PlanPromotion \in {WPIdle, plan}
      BY DEF PlanPromotion
    <2> HIDE DEF cands
    <2>3. plan \in WPState /\ plan.pc = "promote"
      BY Zenon, <1>1, <1>3, <2>1 DEF WPState, WPPc
    <2> QED BY Zenon, <1>3, <2>2, <2>3
  <1>5. PlanDemotion \in WPState /\ PlanDemotion.pc \in {"idle", "demote"}
    <2> DEFINE plan == [WPIdle EXCEPT !.pc = "demote", !.cands = Considered({"hot"}),
                                      !.leases = [s \in Slot |-> SeenLease(s)],
                                      !.need = held - target]
    <2>1. Considered({"hot"}) \in SUBSET Pods
      BY DEF Considered
    <2>2. PlanDemotion \in {WPIdle, plan}
      BY DEF PlanDemotion
    <2>3. plan \in WPState /\ plan.pc = "demote"
      BY Zenon, <1>1, <1>2, <1>3, <2>1 DEF WPState, WPPc
    <2> QED BY Zenon, <1>3, <2>2, <2>3
  <1> QED BY <1>4, <1>5

\* The worker at the end of a loop, or at its next candidate.
LEMMA CandidateType ==
  ASSUME Base
  PROVE  /\ WPIdle \in WPState /\ WPIdle.pc = "idle"
         /\ \A pc \in {"promote", "demote"} :
              NextCandidate(pc) \in WPState /\ NextCandidate(pc).pc \in {"idle", pc}
  <1>a. wp \in WPState /\ wp.need \in Int
    BY DEF Base, TypeOK, WPState
  <1>b. WPIdle \in WPState /\ WPIdle.pc = "idle"
    BY IdleWorkers DEF WPIdle
  <1> SUFFICES ASSUME NEW pc \in {"promote", "demote"}
               PROVE  NextCandidate(pc) \in WPState /\ NextCandidate(pc).pc \in {"idle", pc}
    BY <1>b
  <1> DEFINE next == [wp EXCEPT !.pc = pc, !.need = wp.need - 1, !.pod = NoPod, !.slot = NoLease]
  <1>1. next \in WPState /\ next.pc = pc
    <2>1. wp \in WPState
      BY <1>a
    <2>2. wp.need - 1 \in Int
      BY <1>a
    <2>3. pc \in WPPc
      BY DEF WPPc
    <2> QED BY Zenon, <2>1, <2>2, <2>3 DEF WPState
  <1>2. NextCandidate(pc) \in {WPIdle, next}
    BY DEF NextCandidate
  <1> QED BY Zenon, <1>b, <1>1, <1>2

\* The decision what to promote or demote.
LEMMA decideBase ==
  ASSUME Base, Counts, UNCHANGED gl, decide
  PROVE  Base' /\ LeaseSteps
  <1>a. /\ wp \in WPState /\ pod \in [Pods -> PodObj] /\ faults \in 0 .. MaxFaults
        /\ lease \in [Slot -> LeaseObj] /\ current \in [Slot -> SUBSET Holder]
        /\ wp.cands \subseteq Pods
    BY DEF Base, TypeOK, WPState
  <1>b. UNCHANGED <<machine, cache>>
    BY DEF decide
  <1>1. wp.pc = "sweep" /\ (\A t \in Slot : ~Listed(t)) /\ UNCHANGED <<lease, wl, current, faults>>
    BY DEF decide
  <1>2. wp' \in {WPIdle, PlanPromotion, PlanDemotion}
    BY DEF decide
  <1>3. wp' \in WPState /\ wp'.pc \in {"idle", "promote", "demote"}
    BY CandidateType, <1>2, PlanType DEF Base
  <1>4. pod' \in [Pods -> PodObj]
    <2>1. "warm" \in PodState
      BY DEF PodState
    <2>2. \A p \in Pods : [pod[p] EXCEPT !.label = "warm"] \in PodObj
      BY <1>a, <2>1 DEF PodObj
    <2> QED BY <1>a, <2>2 DEF decide
  <1>5. TypeOK'
    BY <1>b, <1>1, <1>3, <1>4 DEF Base, TypeOK
  <1>6. WPPlan'
    BY <1>3 DEF WPPlan
  <1>7. \A t \in Slot : "wp" \notin current'[t] /\ current'[t] \subseteq current[t]
    <2>1. \A t \in Slot : wp.leases[t].phase = "none"
      BY <1>1 DEF Listed
    <2> QED BY <1>1, <2>1 DEF Base, Copies, Exists
  <1> QED BY <1>b, <1>1, <1>5, <1>6, <1>7, WPIdleBase

\* promote labels the pod.
LEMMA labelActivatingBase ==
  ASSUME Base, UNCHANGED gl, labelActivating
  PROVE  Base' /\ LeaseSteps
  <1>a. /\ wp \in WPState /\ pod \in [Pods -> PodObj] /\ faults \in 0 .. MaxFaults
        /\ lease \in [Slot -> LeaseObj] /\ current \in [Slot -> SUBSET Holder]
        /\ wp.cands \subseteq Pods
    BY DEF Base, TypeOK, WPState
  <1>b. UNCHANGED <<machine, cache>>
    BY DEF labelActivating
  <1>1. wp.pc = "labelActivating" /\ UNCHANGED <<lease, wl, current, faults>>
    BY DEF labelActivating
  <1>2. wp' \in {WPIdle, NextCandidate("promote")}
    BY DEF labelActivating
  <1>3. wp' \in WPState /\ wp'.pc \in {"idle", "promote"}
    BY CandidateType, <1>2
  <1>4. pod' \in [Pods -> PodObj]
    <2>1. wp.pod \in Pods /\ "activating" \in PodState
      BY <1>1 DEF Base, WPPlan, PodState
    <2> QED BY <1>a, <2>1, PatchLabelType DEF labelActivating, Base
  <1>5. TypeOK'
    BY <1>b, <1>1, <1>3, <1>4 DEF Base, TypeOK
  <1>6. WPPlan'
    BY <1>3 DEF WPPlan
  <1>7. \A t \in Slot : "wp" \notin current'[t] /\ current'[t] \subseteq current[t]
    BY <1>1, NoCopies
  <1> QED BY <1>b, <1>1, <1>5, <1>6, <1>7, WPIdleBase

\* demote deletes the lease.
LEMMA deleteLeaseBase ==
  ASSUME Base, UNCHANGED gl, deleteLease
  PROVE  Base' /\ LeaseSteps
  <1>a. /\ wp \in WPState /\ pod \in [Pods -> PodObj] /\ faults \in 0 .. MaxFaults
        /\ lease \in [Slot -> LeaseObj] /\ current \in [Slot -> SUBSET Holder]
        /\ wp.cands \subseteq Pods
    BY DEF Base, TypeOK, WPState
  <1>b. UNCHANGED <<machine, cache>>
    BY DEF deleteLease
  <1>1. wp.pc = "deleteLease" /\ UNCHANGED <<pod, faults>> /\ wp' = NextCandidate("demote")
    BY DEF deleteLease
  <1>2. wp' \in WPState /\ wp'.pc \in {"idle", "demote"}
    BY CandidateType, <1>1
  <1>3. WPPlan'
    BY <1>2 DEF WPPlan
  <1>4. \A t \in Slot : "wp" \notin current[t]
    BY <1>1, NoCopies
  <1>5. CASE wp.slot = NoLease
    <2>1. UNCHANGED <<lease, wl, current>>
      BY <1>5 DEF deleteLease
    <2>2. TypeOK'
      BY <1>b, <1>1, <1>2, <2>1 DEF Base, TypeOK
    <2>3. \A t \in Slot : "wp" \notin current'[t] /\ current'[t] \subseteq current[t]
      BY <1>4, <2>1
    <2> QED BY <1>b, <1>3, <2>1, <2>2, <2>3, WPIdleBase
  <1>6. CASE wp.slot # NoLease
    <2>1. wp.slot \in Slot /\ DeleteLease(wp.slot)
      BY <1>a, <1>6 DEF deleteLease, WPState
    <2> QED BY <1>b, <1>1, <1>2, <1>3, <1>4, <2>1, WPDeleteBase
  <1> QED BY <1>5, <1>6

\* demote labels the pod.
LEMMA labelReleasingBase ==
  ASSUME Base, UNCHANGED gl, NEW p \in wp.cands, labelReleasing(p)
  PROVE  Base' /\ LeaseSteps
  <1>a. /\ wp \in WPState /\ pod \in [Pods -> PodObj] /\ faults \in 0 .. MaxFaults
        /\ lease \in [Slot -> LeaseObj] /\ current \in [Slot -> SUBSET Holder]
        /\ wp.cands \subseteq Pods
    BY DEF Base, TypeOK, WPState
  <1>b. UNCHANGED <<machine, cache>>
    BY ZenonT(30) DEF labelReleasing
  <1>1. wp.pc = "demote" /\ UNCHANGED <<lease, wl, current, faults>>
    BY Zenon DEF labelReleasing
  <1>2. LeaseForPod(p) \subseteq Slot \cup {NoLease}
    BY DEF LeaseForPod
  <1>3. wp' \in WPState /\ wp'.pc \in {"idle", "deleteLease"}
    <2>1. \/ wp' = WPIdle
          \/ \E s \in LeaseForPod(p) :
               wp' = [wp EXCEPT !.pc = "deleteLease", !.cands = wp.cands \ {p}, !.slot = s]
      BY Zenon DEF labelReleasing
    <2>2. ASSUME NEW s \in Slot \cup {NoLease},
                 wp' = [wp EXCEPT !.pc = "deleteLease", !.cands = wp.cands \ {p}, !.slot = s]
          PROVE  wp' \in WPState /\ wp'.pc = "deleteLease"
      BY ZenonT(30), <1>a, <2>2 DEF WPState, WPPc
    <2>3. CASE wp' = WPIdle
      BY CandidateType, <2>3
    <2>4. CASE wp' # WPIdle
      <3>1. PICK s \in LeaseForPod(p) :
               wp' = [wp EXCEPT !.pc = "deleteLease", !.cands = wp.cands \ {p}, !.slot = s]
        BY Zenon, <2>1, <2>4
      <3>2. s \in Slot \cup {NoLease}
        BY <1>2
      <3> QED BY Zenon, <2>2, <3>1, <3>2
    <2> QED BY <2>3, <2>4
  <1>4. pod' \in [Pods -> PodObj]
    <2>1. p \in Pods /\ "releasing" \in PodState
      BY <1>a DEF PodState
    <2> QED BY Zenon, <1>a, <2>1, PatchLabelType DEF labelReleasing, Base
  <1>5. TypeOK'
    BY <1>b, <1>1, <1>3, <1>4 DEF Base, TypeOK
  <1>6. WPPlan'
    BY <1>3 DEF WPPlan
  <1>7. \A t \in Slot : "wp" \notin current'[t] /\ current'[t] \subseteq current[t]
    BY <1>1, NoCopies
  <1> QED BY <1>b, <1>1, <1>5, <1>6, <1>7, WPIdleBase

\* promote creates a lease.
LEMMA acquireLeaseOnNodeBase ==
  ASSUME Base, UNCHANGED gl, NEW p \in wp.cands, acquireLeaseOnNode(p)
  PROVE  Base' /\ LeaseSteps
  <1>a. /\ wp \in WPState /\ pod \in [Pods -> PodObj] /\ faults \in 0 .. MaxFaults
        /\ lease \in [Slot -> LeaseObj] /\ current \in [Slot -> SUBSET Holder]
        /\ wp.cands \subseteq Pods
    BY DEF Base, TypeOK, WPState
  <1>b. UNCHANGED <<machine, cache>>
    BY DEF acquireLeaseOnNode
  <1> DEFINE open == {s \in FreeGPUIDs(NodeOf[p]) : ~Exists(s)}
             rest == wp.cands \ {p}
  <1>1. wp.pc = "promote" /\ UNCHANGED <<pod, faults>> /\ p \in Pods
    BY <1>a DEF acquireLeaseOnNode
  <1>2. \A t \in Slot : "wp" \notin current[t]
    BY <1>1, NoCopies
  <1>3. ASSUME NEW s \in open, PutLease(s, NewLease(p), {}),
               wp' = [wp EXCEPT !.pc = "labelActivating", !.cands = rest, !.pod = p]
        PROVE  Base' /\ LeaseSteps
    <2>1. s \in Slot /\ lease[s].phase = "none"
      BY DEF FreeGPUIDs, Exists
    <2>2. wp' \in WPState /\ wp'.pc = "labelActivating" /\ wp'.pod = p
      BY Zenon, <1>a, <1>1, <1>3 DEF WPState, WPPc
    <2>3. WPPlan'
      BY <1>1, <2>2 DEF WPPlan
    <2>4. NewLease(p) \in LeaseObj /\ NewLease(p).phase = "Pending" /\ NewLease(p).fin
      BY <1>1, Objects DEF NewLease
    <2>5. LeaseStep(lease[s], NewLease(p))
      BY <2>1, <2>4 DEF LeaseStep, PhaseEdge
    <2>6. lease' = [lease EXCEPT ![s] = NewLease(p)] /\ current' = [current EXCEPT ![s] = {}]
      BY <1>3 DEF PutLease
    <2>7. Copies' /\ GLPlan' /\ FinalizerKept' /\ LeaseSteps
      BY Zenon, <1>b, <1>2, <2>1, <2>4, <2>5, <2>6, WPWriteBase
    <2>8. TypeOK'
      <3>1. /\ lease' \in [Slot -> LeaseObj] /\ wl' \in [Slot -> WorkloadObj]
            /\ current' \in [Slot -> SUBSET Holder]
        BY <1>3, <2>1, <2>4, PutLeaseType DEF Base
      <3> QED BY <1>b, <1>1, <2>2, <3>1 DEF Base, TypeOK
    <2> QED BY <2>3, <2>7, <2>8 DEF Base
  <1>4. ASSUME wp' = WPIdle \/ wp' = [wp EXCEPT !.cands = rest], UNCHANGED <<lease, wl, current>>
        PROVE  Base' /\ LeaseSteps
    <2>1. wp' \in WPState /\ wp'.pc \in {"idle", "promote"}
      BY <1>a, CandidateType, <1>1, <1>4 DEF WPState
    <2>2. TypeOK'
      BY <1>b, <1>1, <1>4, <2>1 DEF Base, TypeOK
    <2>3. WPPlan'
      BY <2>1 DEF WPPlan
    <2>4. \A t \in Slot : "wp" \notin current'[t] /\ current'[t] \subseteq current[t]
      BY <1>2, <1>4
    <2> QED BY <1>b, <1>4, <2>2, <2>3, <2>4, WPIdleBase
  <1> QED BY <1>3, <1>4 DEF acquireLeaseOnNode

\* The decision, and the loops of promote and demote.
LEMMA PoolBase ==
  ASSUME Base, Counts, UNCHANGED gl,
         \/ decide \/ labelActivating \/ deleteLease \/ wpAbort
         \/ \E p \in wp.cands : acquireLeaseOnNode(p) \/ labelReleasing(p)
  PROVE  Base' /\ LeaseSteps
  <1>1. CASE wpAbort
    <2>1. faults' \in 0 .. MaxFaults
      BY <1>1, FaultType DEF wpAbort, Base
    <2> QED BY <1>1, <2>1, WPReturnBase DEF wpAbort
  <1> QED BY <1>1, decideBase, labelActivatingBase, deleteLeaseBase, labelReleasingBase,
             acquireLeaseOnNodeBase

-----------------------------------------------------------------------------
(* Claims and GPUs stay on their node *)

\* The WarmPool worker considers for a GPU only pods that the cache shows.
LEMMA WPCandidates ==
  ASSUME Base, Placed, WPNext
  PROVE  \A p \in wp'.cands : SeenPod(p).st # "none"
  <1>1. wp \in WPState /\ \A p \in wp.cands : SeenPod(p).st # "none"
    BY DEF Base, TypeOK, Placed
  <1>2. WPIdle.cands = {}
    BY DEF WPIdle
  <1>3. WPReturn => wp'.cands = {}
    BY <1>2 DEF WPReturn
  <1>4. ASSUME NEW s PROVE Swept(s).cands = wp.cands
    BY <1>1 DEF Swept, WPState
  <1>5. ASSUME NEW pc PROVE NextCandidate(pc).cands \subseteq wp.cands
    BY <1>1, <1>2 DEF NextCandidate, WPState
  <1>6. CASE listLeases
    BY <1>6 DEF listLeases, WPIdle
  <1>7. ASSUME NEW s \in Slot, reclaimFailedLease(s) PROVE wp'.cands \subseteq wp.cands
    <2>1. \/ WPReturn \/ wp' = Swept(s) \/ wp' = [wp EXCEPT !.pc = "deleteFailed", !.slot = s]
          \/ wp' = [wp EXCEPT !.pc = "deleteFailed", !.slot = s, !.leases[s].fin = FALSE]
      BY <1>7 DEF reclaimFailedLease
    <2> QED BY Zenon, <1>1, <1>3, <1>4, <2>1 DEF WPState
  <1>8. ASSUME NEW s \in Slot, deleteOrphan(s) \/ keepLease(s) PROVE wp'.cands = wp.cands
    BY <1>4, <1>8 DEF deleteOrphan, keepLease
  <1>9. CASE deleteFailedLease
    BY <1>1, <1>4, <1>9 DEF deleteFailedLease
  <1>10. CASE decide
    <2>1. ASSUME NEW S, NEW p \in Considered(S) PROVE SeenPod(p).st # "none"
      BY <2>1 DEF Considered, PodView, Unlabelled
    <2>2. PlanPromotion.cands \subseteq Considered({"warm"})
      BY DEF PlanPromotion, WPIdle
    <2>3. PlanDemotion.cands \subseteq Considered({"hot"})
      BY DEF PlanDemotion, WPIdle
    <2>4. wp' = WPIdle \/ wp' = PlanPromotion \/ wp' = PlanDemotion
      BY <1>10 DEF decide
    <2> QED BY <1>2, <2>1, <2>2, <2>3, <2>4
  <1>11. ASSUME NEW p, acquireLeaseOnNode(p) PROVE wp'.cands \subseteq wp.cands
    <2>1. \/ wp' = [wp EXCEPT !.pc = "labelActivating", !.cands = wp.cands \ {p}, !.pod = p]
          \/ wp' = WPIdle
          \/ wp' = [wp EXCEPT !.cands = wp.cands \ {p}]
      BY <1>11 DEF acquireLeaseOnNode
    <2> QED BY Zenon, <1>1, <1>2, <2>1 DEF WPState
  <1>12. ASSUME NEW p, labelReleasing(p) PROVE wp'.cands \subseteq wp.cands
    <2>1. \/ \E s : wp' = [wp EXCEPT !.pc = "deleteLease", !.cands = @ \ {p}, !.slot = s]
          \/ wp' = WPIdle
      BY Zenon, <1>12 DEF labelReleasing
    <2> QED BY ZenonT(30), <1>1, <1>2, <2>1 DEF WPState
  <1>13. CASE labelActivating
    <2>1. wp' = WPIdle \/ wp' = NextCandidate("promote")
      BY <1>13 DEF labelActivating
    <2> QED BY <1>1, <1>2, <1>5, <2>1
  <1>14. CASE deleteLease
    BY <1>1, <1>5, <1>14 DEF deleteLease
  <1>15. CASE wpAbort
    BY <1>3, <1>15 DEF wpAbort
  <1> QED BY <1>1, <1>6, <1>7, <1>8, <1>9, <1>10, <1>11, <1>12, <1>13, <1>14, <1>15 DEF WPNext, WPCall

\* The WarmPool worker creates a lease for a candidate, on the candidate's node.
LEMMA WPPlaced ==
  ASSUME Base, Base', Placed, LeaseSteps, WPNext, UNCHANGED gl
  PROVE  Placed'
  <1>1. TypeOK /\ pod \in [Pods -> PodObj]
    BY DEF Base, TypeOK
  <1>2. UNCHANGED <<machine, cache>>
    BY ZenonT(30) DEF WPNext, WPCall, listLeases, reclaimFailedLease, deleteOrphan, keepLease,
                      deleteFailedLease,
           decide, acquireLeaseOnNode, labelReleasing, labelActivating, deleteLease, wpAbort
  <1>3. \A p \in Pods : pod'[p].st = pod[p].st
    <2>1. ASSUME NEW p \in Pods, NEW seen, NEW label, PatchLabel(p, seen, label)
          PROVE  \A q \in Pods : pod'[q].st = pod[q].st
      BY <1>1, <2>1 DEF PatchLabel, PodObj
    <2>2. CASE pod' = pod
      BY <2>2
    <2>3. CASE decide
      <3>1. \A p \in Pods : pod'[p] \in {pod[p], [pod[p] EXCEPT !.label = "warm"]}
        BY <2>3 DEF decide
      <3> QED BY <1>1, <3>1 DEF PodObj
    <2>4. CASE labelActivating
      <3>1. wp.pod \in Pods
        BY <2>4 DEF labelActivating, Base, WPPlan
      <3>2. pod' = pod \/ PatchLabel(wp.pod, "warm", "activating")
        BY <2>4 DEF labelActivating
      <3> QED BY <2>1, <2>2, <3>1, <3>2
    <2>5. ASSUME NEW p \in wp.cands, labelReleasing(p) PROVE \A q \in Pods : pod'[q].st = pod[q].st
      <3>1. p \in Pods
        BY <1>1 DEF TypeOK, WPState
      <3>2. pod' = pod \/ PatchLabel(p, "hot", "releasing")
        BY Zenon, <2>5 DEF labelReleasing
      <3> QED BY <2>1, <2>2, <3>1, <3>2
    <2> QED BY Zenon, <2>2, <2>3, <2>4, <2>5
            DEF WPNext, WPCall, listLeases, reclaimFailedLease, deleteOrphan, keepLease,
                deleteFailedLease, acquireLeaseOnNode, deleteLease, wpAbort
  <1>4. PodsSeen' /\ \A p \in Pods : SeenPod(p)'.st = SeenPod(p).st
    BY <1>2, <1>3, SeenKept
  <1>5. ASSUME NEW s \in Slot, ~Exists(s) PROVE Fits(s, lease'[s])
    <2>1. CASE lease'[s] = lease[s]
      BY <2>1 DEF Placed
    <2>2. ASSUME NEW t \in Slot, DeleteLease(t) PROVE lease'[s] = lease[s]
      BY <1>1, <1>5, <2>2 DEF DeleteLease, PutLease, TypeOK
    <2>3. ASSUME NEW p \in wp.cands, acquireLeaseOnNode(p) PROVE Fits(s, lease'[s])
      <3>1. CASE lease' = lease
        BY <2>1, <3>1
      <3>2. ASSUME NEW t \in FreeGPUIDs(NodeOf[p]), PutLease(t, NewLease(p), {})
            PROVE  Fits(s, lease'[s])
        <4>1. lease'[s] = lease[s] \/ (s = t /\ lease'[s] = NewLease(p))
          BY <1>1, <3>2 DEF PutLease, TypeOK
        <4>2. t[1] = NodeOf[p] /\ SeenPod(p).st # "none"
          BY DEF FreeGPUIDs, Placed
        <4>3. NewLease(p).claim = p
          BY DEF NewLease
        <4> QED BY <2>1, <4>1, <4>2, <4>3 DEF Fits
      <3> QED BY <2>3, <3>1, <3>2 DEF acquireLeaseOnNode
    <2>4. ASSUME NEW t \in Slot, reclaimFailedLease(t) PROVE lease'[s] = lease[s]
      <3>1. lease' = lease \/ ("wp" \in current[t] /\ Listed(t) /\ \E l, H : PutLease(t, l, H))
        BY <2>4 DEF reclaimFailedLease
      <3>2. "wp" \in current[t] /\ Listed(t) => Exists(t)
        BY DEF Listed, Base, Copies, Exists
      <3> QED BY <1>1, <1>5, <3>1, <3>2 DEF PutLease, TypeOK
    <2>5. CASE deleteFailedLease
      <3>1. DeleteLease(wp.slot) /\ wp.slot \in Slot
        BY <2>5 DEF deleteFailedLease, Base, WPPlan
      <3> QED BY <2>1, <2>2, <3>1
    <2>6. CASE deleteLease
      <3>1. lease' = lease \/ (wp.slot \in Slot /\ DeleteLease(wp.slot))
        BY <1>1, <2>6 DEF deleteLease, TypeOK, WPState
      <3> QED BY <2>1, <2>2, <3>1
    <2>7. ASSUME NEW t \in Slot, deleteOrphan(t) \/ keepLease(t) PROVE lease'[s] = lease[s]
      BY <2>2, <2>7 DEF deleteOrphan, keepLease
    <2>8. ASSUME listLeases \/ decide \/ labelActivating \/ wpAbort \/ \E p : labelReleasing(p)
          PROVE  lease' = lease
      BY Zenon, <2>8 DEF listLeases, decide, labelActivating, wpAbort, labelReleasing
    <2> QED BY <2>1, <2>3, <2>4, <2>5, <2>6, <2>7, <2>8 DEF WPNext, WPCall
  <1>6. gl'.pc # "idle" => Fits(gl'.slot, gl'.lease)
    BY DEF Placed
  <1> QED BY <1>2, <1>4, <1>5, <1>6, WPCandidates, PlacedMove

-----------------------------------------------------------------------------
(* Quota gates activation *)

\* The WarmPool worker creates Pending leases and removes others.
LEMMA WPGated ==
  ASSUME Base, Safe', Gated, WPNext, UNCHANGED gl
  PROVE  GateHolds
  <1>1. /\ lease \in [Slot -> LeaseObj] /\ wp \in WPState
        /\ gl.pc # "idle" => gl.slot \in Slot
    BY DEF Base, TypeOK, GLPlan
  <1>2. ASSUME UNCHANGED <<lease, wl>> PROVE GateHolds
    BY <1>2 DEF Gated, GateHolds
  <1>3. ASSUME NEW s \in Slot, NEW l, NEW H, PutLease(s, l, H), l.phase # "Admitted"
        PROVE  GateHolds
    <2>1. \A t \in Slot : wl'[t].st = wl[t].st /\ (wl'[t].st # "none" => wl'[t].owned)
      BY <1>3, PutGated
    <2>2. \A t \in Slot : lease'[t] = IF t = s THEN l ELSE lease[t]
      BY <1>1, <1>3 DEF PutLease
    <2> QED BY <1>1, <1>3, <2>1, <2>2 DEF Gated, GateHolds
  <1>4. ASSUME NEW s \in Slot, reclaimFailedLease(s) PROVE GateHolds
    <2>1. [wp.leases[s] EXCEPT !.fin = FALSE].phase = "Failed"
      BY <1>1, <1>4 DEF reclaimFailedLease, WPState, LeaseObj, Absent, Stored
    <2>2. UNCHANGED <<lease, wl>> \/ PutLease(s, [wp.leases[s] EXCEPT !.fin = FALSE], {"wp"})
      BY <1>4 DEF reclaimFailedLease
    <2> QED BY Zenon, <1>2, <1>3, <2>1, <2>2
  <1>5. ASSUME NEW s \in Slot, deleteOrphan(s) \/ keepLease(s) PROVE GateHolds
    BY <1>2, <1>5, DeleteGated DEF deleteOrphan, keepLease
  <1>6. CASE deleteFailedLease
    <2>1. DeleteLease(wp.slot) /\ wp.slot \in Slot
      BY <1>6 DEF deleteFailedLease, Base, WPPlan
    <2> QED BY <2>1, DeleteGated
  <1>7. CASE deleteLease
    <2>1. UNCHANGED <<lease, wl>> \/ (wp.slot \in Slot /\ DeleteLease(wp.slot))
      BY <1>1, <1>7 DEF deleteLease, WPState
    <2> QED BY <1>2, <2>1, DeleteGated
  <1>8. ASSUME NEW p, acquireLeaseOnNode(p) PROVE GateHolds
    <2>1. UNCHANGED <<lease, wl>> \/ \E s \in Slot : PutLease(s, NewLease(p), {})
      BY <1>8 DEF acquireLeaseOnNode, FreeGPUIDs
    <2>2. NewLease(p).phase # "Admitted"
      BY DEF NewLease
    <2> QED BY <1>2, <1>3, <2>1, <2>2
  <1>9. CASE listLeases \/ decide \/ labelActivating \/ wpAbort \/ \E p : labelReleasing(p)
    BY Zenon, <1>2, <1>9 DEF listLeases, decide, labelActivating, wpAbort, labelReleasing
  <1> QED BY <1>4, <1>5, <1>6, <1>7, <1>8, <1>9 DEF WPNext, WPCall
=============================================================================
