--------------------------- MODULE GPULeaseProofs ---------------------------
(***************************************************************************)
(* The GPULease worker preserves Base, Placed and Gated, and moves a lease *)
(* only along the edges of its state machine.                              *)
(***************************************************************************)
EXTENDS LeaseInvariant

\* Every start of a reconcile: the worker copies the lease it read.
LEMMA GLBeginBase ==
  ASSUME Base, gl.pc = "idle", UNCHANGED wp,
         NEW s \in Slot, NEW pc \in GLPc \ {"idle"}, NEW label \in PodState \cup {""},
         NEW failing \in BOOLEAN, GLBegin(s, pc, label, failing)
  PROVE  /\ TypeOK' /\ Copies' /\ WPPlan' /\ FinalizerKept' /\ LeaseSteps
         /\ gl'.pc = pc /\ gl'.slot = s /\ gl'.lease = SeenLease(s) /\ gl'.failing = failing
  <1>1. /\ gl'.pc = pc /\ gl'.slot = s /\ gl'.lease = SeenLease(s) /\ gl'.failing = failing
        /\ UNCHANGED <<lease, wl, pod, machine, cache, faults>>
        /\ current' = Copied("gl", {s})
    BY DEF GLBegin
  <1>2. gl' \in GLState
    BY SeenType DEF GLBegin, GLState, Base
  <1>3. TypeOK'
    BY <1>1, <1>2, CopiedType DEF Base, TypeOK, Holder
  <1>4. ASSUME NEW t \in Slot
        PROVE  /\ "cache" \in current'[t] => "cache" \in current[t]
               /\ "wp" \in current'[t] => "wp" \in current[t]
               /\ "gl" \in current'[t] => t = s /\ SeenLease(s) = lease[s]
    <2>1. "gl" \notin current[t]
      BY DEF Base, Copies
    <2>2. current'[t] = IF t \notin {s} THEN current[t]
                        ELSE IF "lease" \in Stale /\ "cache" \notin current[t]
                          THEN current[t] \ {"gl"}
                        ELSE current[t] \cup {"gl"}
      BY <1>1 DEF Copied
    <2>3. "gl" \in current'[t] => t = s /\ ("lease" \in Stale => "cache" \in current[s])
      BY <2>1, <2>2
    <2>4. ("lease" \in Stale => "cache" \in current[s]) => SeenLease(s) = lease[s]
      BY SeenCurrent
    <2>5. ("cache" \in current'[t] => "cache" \in current[t])
          /\ ("wp" \in current'[t] => "wp" \in current[t])
      <3>1. \/ current'[t] = current[t]
            \/ current'[t] = current[t] \ {"gl"}
            \/ current'[t] = current[t] \cup {"gl"}
        BY <2>2
      <3> QED BY <3>1
    <2> QED BY <2>3, <2>4, <2>5
  <1>5. Copies'
    BY <1>1, <1>4 DEF Base, Copies, Exists
  <1> QED BY <1>1, <1>3, <1>5, NoLeaseStep DEF Base, WPPlan, FinalizerKept, Exists

\* Reconcile's dispatch: the phase read decides where the worker goes.
LEMMA GLStartBase ==
  ASSUME Base, UNCHANGED wp, NEW s \in Slot, GLStart(s)
  PROVE  Base' /\ LeaseSteps
  <1> DEFINE Begins(pc, label, failing) ==
               GLBegin(s, pc, label, failing) /\ Planned(pc, SeenLease(s), failing)
             l == SeenLease(s)
  <1>1. l \in LeaseObj
    BY SeenType DEF Base
  <1>2. l.phase # "none" => ClaimLabel(s) \in PodState \cup {""}
    <2> SUFFICES ASSUME l.phase # "none" PROVE ClaimLabel(s) \in PodState \cup {""}
      OBVIOUS
    <2>1. l.claim \in Pods
      BY <1>1, LeaseEdit DEF Stored
    <2> QED BY <2>1, SeenType DEF ClaimLabel, PodObj, Base
  <1>3. gl.pc = "idle"
    BY DEF GLStart, beginDeletion, beginAddFinalizer, reconcilePending, admissionTimeout,
           reconcileAdmitted, reconcileActivating, reconcileBound, GLReads
  <1> HIDE DEF l
  <1>4. \E pc \in GLPc \ {"idle"}, label \in PodState \cup {""}, failing \in BOOLEAN :
          Begins(pc, label, failing)
    <2>1. CASE beginDeletion(s)
      <3>1. \/ l.phase = "Releasing" /\ Begins("deleteWorkload", "", FALSE)
            \/ l.phase # "Releasing" /\ Begins("setReleasing", "", FALSE)
        BY <2>1 DEF beginDeletion, Planned, Cleanup, l
      <3> QED BY <3>1 DEF GLPc
    <2>2. CASE beginAddFinalizer(s)
      <3>1. Begins("addFinalizer", "", FALSE)
        BY <2>2 DEF beginAddFinalizer, Planned, Cleanup
      <3> QED BY <3>1 DEF GLPc
    <2>3. ASSUME GLReads(s, "Pending") \/ GLReads(s, "Admitted") \/ GLReads(s, "Activating")
                   \/ GLReads(s, "Bound"),
                 GLBeginFailing(s)
          PROVE  Begins("deleteWorkload", "", TRUE)
      BY <2>3 DEF GLReads, GLBeginFailing, Planned, Cleanup
    <2>4. CASE reconcilePending(s)
      <3>1. \/ Begins("createWorkload", "", FALSE)
            \/ Begins("admitLease", "", FALSE)
            \/ Begins("deleteWorkload", "", TRUE)
        BY <2>3, <2>4 DEF reconcilePending, GLReads, Planned, Cleanup
      <3> QED BY <3>1 DEF GLPc
    <2>5. CASE admissionTimeout(s) \/ reconcileBound(s)
      <3>1. Begins("deleteWorkload", "", TRUE)
        BY <2>3, <2>5 DEF admissionTimeout, reconcileBound
      <3> QED BY <3>1 DEF GLPc
    <2>6. CASE reconcileAdmitted(s)
      <3>1. Begins("activatePod", "", FALSE) \/ Begins("deleteWorkload", "", TRUE)
        BY <2>3, <2>6 DEF reconcileAdmitted, GLReads, Planned, Cleanup
      <3> QED BY <3>1 DEF GLPc
    <2>7. CASE reconcileActivating(s)
      <3>1. Begins("pollState", ClaimLabel(s), FALSE) \/ Begins("deleteWorkload", "", TRUE)
        BY <2>3, <2>7 DEF reconcileActivating, GLReads, Planned, Cleanup
      <3>2. ClaimLabel(s) \in PodState \cup {""}
        BY <1>2, <2>7 DEF reconcileActivating, GLReads, l
      <3> QED BY <3>1, <3>2 DEF GLPc
    <2> QED BY <2>1, <2>2, <2>4, <2>5, <2>6, <2>7 DEF GLStart
  <1>5. PICK pc \in GLPc \ {"idle"}, label \in PodState \cup {""}, failing \in BOOLEAN :
          Begins(pc, label, failing)
    BY <1>4
  <1>6. /\ TypeOK' /\ Copies' /\ WPPlan' /\ FinalizerKept' /\ LeaseSteps
        /\ gl'.pc = pc /\ gl'.slot = s /\ gl'.lease = SeenLease(s) /\ gl'.failing = failing
    BY <1>3, <1>5, GLBeginBase
  <1>7. GLPlan'
    BY <1>5, <1>6 DEF GLPlan
  <1> QED BY <1>6, <1>7 DEF Base

\* A step that moves the worker on with the same copy of the lease.
LEMMA GLMoveBase ==
  ASSUME Base, gl.pc # "idle", UNCHANGED <<wp, lease, cache, current>>,
         NEW pc \in GLPc \ {"idle"}, NEW label \in PodState \cup {""}, NEW failing \in BOOLEAN,
         gl' = [gl EXCEPT !.pc = pc, !.label = label, !.failing = failing],
         Planned(pc, gl.lease, failing),
         wl' \in [Slot -> WorkloadObj], pod' \in [Pods -> PodObj],
         machine' \in [Pods -> Machine(Slot)], faults' \in 0 .. MaxFaults
  PROVE  Base' /\ LeaseSteps
  <1>1. gl \in GLState
    BY DEF Base, TypeOK
  <1>2. /\ gl' \in GLState /\ gl'.pc = pc /\ gl'.slot = gl.slot /\ gl'.lease = gl.lease
        /\ gl'.failing = failing
    BY <1>1 DEF GLState
  <1>3. TypeOK'
    BY <1>2 DEF Base, TypeOK
  <1>4. Copies'
    BY <1>2 DEF Base, Copies, Exists
  <1>5. GLPlan'
    BY <1>2 DEF Base, GLPlan
  <1> QED BY <1>3, <1>4, <1>5, NoLeaseStep DEF Base, WPPlan, FinalizerKept, Exists

\* The GPULease worker moves on to its next call with the same copy.
LEMMA GLGotoBase ==
  ASSUME Base, gl.pc # "idle", UNCHANGED <<wp, lease, cache>>,
         NEW pc \in GLPc \ {"idle"}, GLGoto(pc), Planned(pc, gl.lease, gl.failing),
         wl' \in [Slot -> WorkloadObj], pod' \in [Pods -> PodObj],
         machine' \in [Pods -> Machine(Slot)], faults' \in 0 .. MaxFaults
  PROVE  Base' /\ LeaseSteps
  <1>1. gl \in GLState
    BY DEF Base, TypeOK
  <1>2. gl' = [gl EXCEPT !.pc = pc, !.label = gl.label, !.failing = gl.failing]
    BY <1>1 DEF GLGoto, GLState
  <1>3. gl.label \in PodState \cup {""} /\ gl.failing \in BOOLEAN
    BY <1>1 DEF GLState
  <1>4. UNCHANGED current
    BY DEF GLGoto
  <1> QED BY Zenon, <1>2, <1>3, <1>4, GLMoveBase

\* transitionToFailed, entered from an admitted or activating lease.
LEMMA GLFailBase ==
  ASSUME Base, UNCHANGED <<wp, lease, cache, wl, pod>>, gl.pc \in {"activatePod", "pollState"}, GLFail,
         machine' \in [Pods -> Machine(Slot)], faults' \in 0 .. MaxFaults
  PROVE  Base' /\ LeaseSteps
  <1>1. Planned(gl.pc, gl.lease, gl.failing)
    BY DEF Base, GLPlan
  <1>2. Planned("deleteWorkload", gl.lease, TRUE)
    BY <1>1 DEF Planned, Cleanup
  <1>3. "deleteWorkload" \in GLPc \ {"idle"}
    BY DEF GLPc
  <1>4. wl' \in [Slot -> WorkloadObj] /\ pod' \in [Pods -> PodObj]
    BY DEF Base, TypeOK
  <1> QED BY Zenon, <1>2, <1>3, <1>4, GLMoveBase DEF GLFail

\* A step that ends the reconcile.
LEMMA GLReturnBase ==
  ASSUME Base, gl.pc # "idle", UNCHANGED <<wp, lease, cache, machine>>, GLReturn,
         wl' \in [Slot -> WorkloadObj], pod' \in [Pods -> PodObj], faults' \in 0 .. MaxFaults
  PROVE  Base' /\ LeaseSteps
  <1>1. gl' = GLIdle /\ gl'.pc = "idle" /\ gl.slot \in Slot
    BY DEF GLReturn, GLIdle, Base, GLPlan
  <1>2. current \in [Slot -> SUBSET Holder]
    BY DEF Base, TypeOK
  <1>3. current' \in [Slot -> SUBSET Holder]
        /\ \A t \in Slot : current'[t] = IF t = gl.slot THEN current[t] \ {"gl"} ELSE current[t]
    BY Zenon, <1>1, <1>2 DEF GLReturn
  <1>4. TypeOK'
    BY <1>1, <1>3, IdleWorkers DEF Base, TypeOK
  <1>5. \A t \in Slot : "gl" \notin current'[t]
    BY <1>3 DEF Base, Copies
  <1>6. Copies'
    <2>1. \A t \in Slot : current'[t] \subseteq current[t]
      BY <1>3
    <2> QED BY <1>5, <2>1 DEF Base, Copies, Exists
  <1>7. GLPlan'
    BY <1>1 DEF GLPlan
  <1> QED BY <1>4, <1>6, <1>7, NoLeaseStep DEF Base, WPPlan, FinalizerKept, Exists

\* A lease update: of the stored lease if the copy is current, else a conflict.
LEMMA GLUpdateBase ==
  ASSUME Base, UNCHANGED wp, NEW at \in GLPc \ {"idle"}, NEW new \in LeaseObj, NEW then \in GLPc,
         GLUpdate(at, new, then),
         LeaseStep(gl.lease, new), new.phase # "none" /\ ~new.fin => new.phase = "Failed",
         then # "idle" => Planned(then, new, gl.failing)
  PROVE  Base' /\ LeaseSteps
  <1>1. gl.pc = at /\ gl.slot \in Slot /\ UNCHANGED <<pod, machine, cache, faults>>
    BY DEF GLUpdate, Base, GLPlan
  <1>2. CASE ~GLFresh
    <2>1. GLReturn /\ UNCHANGED <<lease, wl>>
      BY <1>2 DEF GLUpdate
    <2>2. wl' \in [Slot -> WorkloadObj] /\ pod' \in [Pods -> PodObj] /\ faults' \in 0 .. MaxFaults
      BY <1>1, <2>1 DEF Base, TypeOK
    <2> QED BY <1>1, <2>1, <2>2, GLReturnBase
  <1>3. CASE GLFresh
    <2>1. PICK H \in {{}, {"gl"}} :
            /\ PutLease(gl.slot, new, H)
            /\ \/ H = {} /\ gl' = GLIdle
               \/ then # "idle" /\ gl' = [gl EXCEPT !.pc = then, !.lease = new]
      BY <1>3 DEF GLUpdate
    <2>2. gl.lease = lease[gl.slot]
      BY <1>1, <1>3 DEF GLFresh, Base, Copies
    <2>3. lease \in [Slot -> LeaseObj] /\ current \in [Slot -> SUBSET Holder] /\ gl \in GLState
      BY DEF Base, TypeOK
    <2>4. gl' \in GLState
      BY <2>1, <2>3, IdleWorkers DEF GLState
    <2>5. lease' = [lease EXCEPT ![gl.slot] = new] /\ current' = [current EXCEPT ![gl.slot] = H]
      BY <2>1 DEF PutLease
    <2>6. H \in SUBSET Holder
      BY DEF Holder
    <2>7. lease' \in [Slot -> LeaseObj] /\ current' \in [Slot -> SUBSET Holder] /\ wl' \in [Slot -> WorkloadObj]
      BY <1>1, <2>1, <2>6, PutLeaseType DEF Base
    <2>8. TypeOK'
      BY <1>1, <2>4, <2>7 DEF Base, TypeOK
    <2>9. LeaseSteps
      BY Zenon, <1>1, <2>2, <2>5, OneLeaseStep DEF Base
    <2>10. \/ H = {} /\ gl'.pc = "idle"
           \/ /\ then # "idle" /\ gl'.pc = then /\ gl'.slot = gl.slot
              /\ gl'.lease = new /\ gl'.failing = gl.failing
      <3>1. CASE gl' = GLIdle /\ H = {}
        BY <3>1 DEF GLIdle
      <3>2. CASE then # "idle" /\ gl' = [gl EXCEPT !.pc = then, !.lease = new]
        BY <2>3, <3>2 DEF GLState
      <3> QED BY <2>1, <3>1, <3>2
    <2>11. GLPlan'
      BY <1>1, <2>10 DEF GLPlan
    <2>12. ASSUME NEW t \in Slot
           PROVE  (/\ "cache" \in current[t] => "lease" \in Stale /\ cache.lease[t] = lease[t]
                   /\ "gl" \in current[t] => gl.pc # "idle" /\ gl.slot = t /\ gl.lease = lease[t]
                   /\ "wp" \in current[t] =>
                        wp.pc \in {"sweep", "deleteFailed"} /\ wp.leases[t] = lease[t] /\ Exists(t))'
      <3>1. CASE t # gl.slot
        <4>1. lease'[t] = lease[t] /\ current'[t] = current[t] /\ "gl" \notin current[t]
          BY <2>3, <2>5, <3>1 DEF Base, Copies
        <4> QED BY <1>1, <4>1 DEF Base, Copies, Exists
      <3>2. CASE t = gl.slot
        <4>1. lease'[t] = new /\ current'[t] = H /\ "wp" \notin H /\ "cache" \notin H
          BY <1>1, <2>3, <2>5, <3>2
        <4> QED BY <2>10, <3>2, <4>1
      <3> QED BY <3>1, <3>2
    <2>13. Copies'
      BY <2>12 DEF Copies
    <2>14. FinalizerKept'
      BY <1>1, <2>3, <2>5 DEF Base, FinalizerKept, Exists
    <2> QED BY <2>8, <2>9, <2>11, <2>13, <2>14 DEF Base, WPPlan
  <1> QED BY <1>2, <1>3

\* Each of the worker's updates is a step of the lease's state machine.
LEMMA GLUpdatesBase ==
  ASSUME Base, UNCHANGED wp,
         \/ addFinalizer \/ recordWorkload \/ admitLease \/ setActivating \/ setBound
         \/ setFailed \/ setReleasing \/ removeFinalizer
  PROVE  Base' /\ LeaseSteps
  <1> DEFINE l == gl.lease
             ok(new, then) == /\ new \in LeaseObj /\ LeaseStep(l, new)
                              /\ new.phase # "none" /\ ~new.fin => new.phase = "Failed"
                              /\ then # "idle" => Planned(then, new, gl.failing)
  <1>1. gl \in GLState
    BY DEF Base, TypeOK
  <1>2. l \in LeaseObj
    BY <1>1 DEF GLState
  <1>3. l.phase # "none" => l \in Stored
    BY <1>2, LeaseEdit
  <1>4. gl.pc # "idle" => Planned(gl.pc, l, gl.failing)
    BY DEF Base, GLPlan
  <1>5. ASSUME NEW at \in GLPc \ {"idle"}, NEW new, NEW then \in GLPc,
               GLUpdate(at, new, then), ok(new, then)
        PROVE  Base' /\ LeaseSteps
    BY <1>5, GLUpdateBase
  <1> HIDE DEF l
  <1>7. CASE addFinalizer
    <2>1. gl.pc = "addFinalizer" /\ GLUpdate("addFinalizer", [l EXCEPT !.fin = TRUE], "idle")
      BY <1>7 DEF addFinalizer, GLUpdate, l
    <2>2. ok([l EXCEPT !.fin = TRUE], "idle")
      BY Zenon, <1>3, <1>4, <2>1 DEF Planned, Stored, LeaseObj, LeaseStep
    <2> QED BY Zenon, <1>5, <2>1, <2>2 DEF GLPc
  <1>8. CASE recordWorkload
    <2>1. gl.pc = "recordWorkload" /\ GLUpdate("recordWorkload", [l EXCEPT !.named = TRUE], "idle")
      BY <1>8 DEF recordWorkload, GLUpdate, l
    <2>2. ok([l EXCEPT !.named = TRUE], "idle")
      BY Zenon, <1>3, <1>4, <2>1 DEF Planned, Stored, LeaseObj, LeaseStep
    <2> QED BY Zenon, <1>5, <2>1, <2>2 DEF GLPc
  <1>9. CASE admitLease
    <2>1. gl.pc = "admitLease" /\ GLUpdate("admitLease", [l EXCEPT !.phase = "Admitted"], "idle")
      BY <1>9 DEF admitLease, GLUpdate, l
    <2>2. ok([l EXCEPT !.phase = "Admitted"], "idle")
      BY <1>3, <1>4, <2>1 DEF Planned, Stored, LeaseObj, LeaseStep, Phase, PhaseEdge
    <2> QED BY Zenon, <1>5, <2>1, <2>2 DEF GLPc
  <1>10. CASE setActivating
    <2>1. gl.pc = "setActivating" /\ GLUpdate("setActivating", [l EXCEPT !.phase = "Activating"], "idle")
      BY <1>10 DEF setActivating, GLUpdate, l
    <2>2. ok([l EXCEPT !.phase = "Activating"], "idle")
      BY <1>3, <1>4, <2>1 DEF Planned, Stored, LeaseObj, LeaseStep, Phase, PhaseEdge
    <2> QED BY Zenon, <1>5, <2>1, <2>2 DEF GLPc
  <1>11. CASE setBound
    <2>1. gl.pc = "setBound" /\ GLUpdate("setBound", [l EXCEPT !.phase = "Bound"], "idle")
      BY <1>11 DEF setBound, GLUpdate, l
    <2>2. ok([l EXCEPT !.phase = "Bound"], "idle")
      BY <1>3, <1>4, <2>1 DEF Planned, Stored, LeaseObj, LeaseStep, Phase, PhaseEdge
    <2> QED BY Zenon, <1>5, <2>1, <2>2 DEF GLPc
  <1>12. CASE setFailed
    <2>1. gl.pc = "setFailed" /\ GLUpdate("setFailed", [l EXCEPT !.phase = "Failed"], "idle")
      BY <1>12 DEF setFailed, GLUpdate, l
    <2>2. ok([l EXCEPT !.phase = "Failed"], "idle")
      BY <1>3, <1>4, <2>1 DEF Planned, Stored, LeaseObj, LeaseStep, Phase, PhaseEdge, Cleanup
    <2> QED BY Zenon, <1>5, <2>1, <2>2 DEF GLPc
  <1>13. CASE setReleasing
    <2>1. gl.pc = "setReleasing" /\ GLUpdate("setReleasing", [l EXCEPT !.phase = "Releasing"], "deleteWorkload")
      BY <1>13 DEF setReleasing, GLUpdate, l
    <2>2. ok([l EXCEPT !.phase = "Releasing"], "deleteWorkload")
      BY <1>3, <1>4, <2>1 DEF Planned, Stored, LeaseObj, LeaseStep, Phase, Cleanup
    <2> QED BY Zenon, <1>5, <2>1, <2>2 DEF GLPc
  <1>14. CASE removeFinalizer
    <2>1. gl.pc = "removeFinalizer" /\ GLUpdate("removeFinalizer", Absent, "idle")
      BY <1>14 DEF removeFinalizer, GLUpdate, l
    <2>2. ok(Absent, "idle")
      BY <1>3, <1>4, <2>1 DEF Planned, Stored, LeaseObj, LeaseStep, Absent, PhaseEdge, Cleanup
    <2> QED BY <1>5, <2>1, <2>2 DEF GLPc
  <1> QED BY <1>7, <1>8, <1>9, <1>10, <1>11, <1>12, <1>13, <1>14

\* A worker amid a reconcile has a lease with a claim.
LEMMA GLBusy ==
  ASSUME Base, gl.pc # "idle"
  PROVE  /\ gl.slot \in Slot /\ Planned(gl.pc, gl.lease, gl.failing)
         /\ gl.lease.claim \in Pods /\ gl.failing \in BOOLEAN
  <1>1. gl \in GLState
    BY DEF Base, TypeOK
  <1>2. gl.slot \in Slot /\ Planned(gl.pc, gl.lease, gl.failing)
    BY DEF Base, GLPlan
  <1>3. gl.lease.claim \in Pods /\ gl.failing \in BOOLEAN
    BY <1>1, <1>2, LeaseEdit DEF GLState, Planned, Stored
  <1> QED BY <1>2, <1>3

\* The Workload is created.
LEMMA createWorkloadBase ==
  ASSUME Base, UNCHANGED wp, createWorkload
  PROVE  Base' /\ LeaseSteps
  <1>a. /\ wl \in [Slot -> WorkloadObj] /\ pod \in [Pods -> PodObj] /\ gl \in GLState
        /\ machine \in [Pods -> Machine(Slot)] /\ faults \in 0 .. MaxFaults
    BY DEF Base, TypeOK
  <1>b. gl.pc # "idle" /\ UNCHANGED <<lease, cache>>
    BY DEF createWorkload
  <1>c. /\ gl.slot \in Slot /\ Planned(gl.pc, gl.lease, gl.failing)
        /\ gl.lease.claim \in Pods /\ gl.failing \in BOOLEAN
    BY <1>b, GLBusy
  <1>1. wl' \in [Slot -> WorkloadObj]
    <2>1. [st |-> "pending", owned |-> Exists(gl.slot)] \in WorkloadObj
      BY DEF WorkloadObj, Exists
    <2> QED BY Zenon, <1>a, <2>1 DEF createWorkload
  <1>2. Planned("recordWorkload", gl.lease, gl.failing)
    BY <1>c DEF createWorkload, Planned, Cleanup
  <1>3. "recordWorkload" \in GLPc \ {"idle"}
    BY DEF GLPc
  <1> QED BY <1>a, <1>b, <1>1, <1>2, <1>3, GLGotoBase, GLReturnBase DEF createWorkload

\* The Workload is deleted.
LEMMA deleteWorkloadBase ==
  ASSUME Base, UNCHANGED wp, deleteWorkload
  PROVE  Base' /\ LeaseSteps
  <1>a. /\ wl \in [Slot -> WorkloadObj] /\ pod \in [Pods -> PodObj] /\ gl \in GLState
        /\ machine \in [Pods -> Machine(Slot)] /\ faults \in 0 .. MaxFaults
    BY DEF Base, TypeOK
  <1>b. gl.pc # "idle" /\ UNCHANGED <<lease, cache>>
    BY DEF deleteWorkload
  <1>c. /\ gl.slot \in Slot /\ Planned(gl.pc, gl.lease, gl.failing)
        /\ gl.lease.claim \in Pods /\ gl.failing \in BOOLEAN
    BY <1>b, GLBusy
  <1>1. wl' \in [Slot -> WorkloadObj]
    BY Zenon, <1>a, Objects DEF deleteWorkload
  <1>2. Planned("releasePod", gl.lease, gl.failing)
    BY <1>c DEF deleteWorkload, Planned, Cleanup
  <1>3. "releasePod" \in GLPc \ {"idle"}
    BY DEF GLPc
  <1> QED BY <1>a, <1>b, <1>1, <1>2, <1>3, GLGotoBase DEF deleteWorkload

\* POST /lease, with each of its answers.
LEMMA activatePodBase ==
  ASSUME Base, UNCHANGED wp, activatePod
  PROVE  Base' /\ LeaseSteps
  <1>a. /\ wl \in [Slot -> WorkloadObj] /\ pod \in [Pods -> PodObj] /\ gl \in GLState
        /\ machine \in [Pods -> Machine(Slot)] /\ faults \in 0 .. MaxFaults
    BY DEF Base, TypeOK
  <1>b. gl.pc # "idle" /\ UNCHANGED <<lease, cache>>
    BY DEF activatePod
  <1>c. /\ gl.slot \in Slot /\ Planned(gl.pc, gl.lease, gl.failing)
        /\ gl.lease.claim \in Pods /\ gl.failing \in BOOLEAN
    BY <1>b, GLBusy
  <1>1. machine' \in [Pods -> Machine(Slot)]
    <2>1. Activated(machine[gl.lease.claim], gl.slot) \in Machine(Slot)
      BY Zenon, <1>a, <1>c, MachineType
    <2> QED BY <1>a, <2>1 DEF activatePod
  <1>2. faults' \in 0 .. MaxFaults
    BY <1>a, FaultType DEF activatePod, Base
  <1>3. Planned("setActivating", gl.lease, gl.failing)
    BY <1>c DEF activatePod, Planned, Cleanup
  <1>4. "setActivating" \in GLPc \ {"idle"}
    BY DEF GLPc
  <1>5. GLFail \/ GLGoto("setActivating")
    BY DEF activatePod
  <1>6. UNCHANGED <<wl, pod>> /\ gl.pc = "activatePod"
    BY DEF activatePod
  <1> QED BY <1>a, <1>b, <1>1, <1>2, <1>3, <1>4, <1>5, <1>6, GLGotoBase, GLFailBase

\* GET /state.
LEMMA pollStateBase ==
  ASSUME Base, UNCHANGED wp, pollState
  PROVE  Base' /\ LeaseSteps
  <1>a. /\ wl \in [Slot -> WorkloadObj] /\ pod \in [Pods -> PodObj] /\ gl \in GLState
        /\ machine \in [Pods -> Machine(Slot)] /\ faults \in 0 .. MaxFaults
    BY DEF Base, TypeOK
  <1>b. gl.pc # "idle" /\ UNCHANGED <<lease, cache>>
    BY DEF pollState
  <1>c. /\ gl.slot \in Slot /\ Planned(gl.pc, gl.lease, gl.failing)
        /\ gl.lease.claim \in Pods /\ gl.failing \in BOOLEAN
    BY <1>b, GLBusy
  <1>1. Planned("markPodHot", gl.lease, gl.failing)
    BY <1>c DEF pollState, Planned, Cleanup
  <1>2. "markPodHot" \in GLPc \ {"idle"}
    BY DEF GLPc
  <1> QED BY <1>a, <1>b, <1>1, <1>2, GLGotoBase, GLReturnBase DEF pollState

\* The pod is labelled hot.
LEMMA markPodHotBase ==
  ASSUME Base, UNCHANGED wp, markPodHot
  PROVE  Base' /\ LeaseSteps
  <1>a. /\ wl \in [Slot -> WorkloadObj] /\ pod \in [Pods -> PodObj] /\ gl \in GLState
        /\ machine \in [Pods -> Machine(Slot)] /\ faults \in 0 .. MaxFaults
    BY DEF Base, TypeOK
  <1>b. gl.pc # "idle" /\ UNCHANGED <<lease, cache>>
    BY DEF markPodHot
  <1>c. /\ gl.slot \in Slot /\ Planned(gl.pc, gl.lease, gl.failing)
        /\ gl.lease.claim \in Pods /\ gl.failing \in BOOLEAN
    BY <1>b, GLBusy
  <1>1. Planned("setBound", gl.lease, gl.failing)
    BY <1>c DEF markPodHot, Planned, Cleanup
  <1>2. "setBound" \in GLPc \ {"idle"} /\ "hot" \in PodState \cup {""}
    BY DEF GLPc, PodState
  <1>3. pod' \in [Pods -> PodObj]
    BY <1>a, <1>c, <1>2, PatchLabelType DEF markPodHot, Base
  <1>4. UNCHANGED <<wl, machine, faults>>
    BY DEF markPodHot
  <1>5. \/ gl' = [gl EXCEPT !.pc = "setBound", !.label = "", !.failing = gl.failing]
           /\ UNCHANGED current
        \/ GLReturn
    BY <1>a DEF markPodHot, GLState
  <1>6. wl' \in [Slot -> WorkloadObj] /\ machine' \in [Pods -> Machine(Slot)] /\ faults' \in 0 .. MaxFaults
    BY <1>a, <1>4
  <1>7. CASE GLReturn
    BY <1>b, <1>3, <1>4, <1>6, <1>7, GLReturnBase
  <1>8. CASE gl' = [gl EXCEPT !.pc = "setBound", !.label = "", !.failing = gl.failing] /\ UNCHANGED current
    BY Zenon, <1>b, <1>c, <1>1, <1>2, <1>3, <1>6, <1>8, GLMoveBase
  <1> QED BY <1>5, <1>7, <1>8

\* DELETE /lease.
LEMMA releasePodBase ==
  ASSUME Base, UNCHANGED wp, releasePod
  PROVE  Base' /\ LeaseSteps
  <1>a. /\ wl \in [Slot -> WorkloadObj] /\ pod \in [Pods -> PodObj] /\ gl \in GLState
        /\ machine \in [Pods -> Machine(Slot)] /\ faults \in 0 .. MaxFaults
    BY DEF Base, TypeOK
  <1>b. gl.pc # "idle" /\ UNCHANGED <<lease, cache>>
    BY DEF releasePod
  <1>c. /\ gl.slot \in Slot /\ Planned(gl.pc, gl.lease, gl.failing)
        /\ gl.lease.claim \in Pods /\ gl.failing \in BOOLEAN
    BY <1>b, GLBusy
  <1>d. AfterRelease \in GLPc \ {"idle"}
    BY DEF AfterRelease, GLPc
  <1>e. gl.pc \in {"releasePod", "revertPod"} => Planned(AfterRelease, gl.lease, gl.failing)
                                                 /\ Planned("revertPod", gl.lease, gl.failing)
    BY <1>c DEF AfterRelease, Planned, Cleanup
  <1>1. UNCHANGED <<wl, pod>> /\ gl.pc = "releasePod"
    BY DEF releasePod
  <1>2. machine' \in [Pods -> Machine(Slot)]
    <2>1. Released(machine[gl.lease.claim]) \in Machine(Slot)
      BY <1>a, <1>c, MachineType
    <2> QED BY <1>a, <2>1 DEF releasePod
  <1>3. faults' \in 0 .. MaxFaults
    BY <1>a, FaultType DEF releasePod, Base
  <1>4. SeenPod(gl.lease.claim).label \in PodState \cup {""}
    BY <1>c, SeenType DEF PodObj, Base
  <1>5. \/ GLGoto(AfterRelease)
        \/ gl' = [gl EXCEPT !.pc = "revertPod", !.label = SeenPod(gl.lease.claim).label,
                            !.failing = gl.failing]
           /\ UNCHANGED current
    BY <1>a DEF releasePod, GLState
  <1>6. "revertPod" \in GLPc \ {"idle"}
    BY DEF GLPc
  <1>7. wl' \in [Slot -> WorkloadObj] /\ pod' \in [Pods -> PodObj]
    BY <1>a, <1>1
  <1>8. CASE GLGoto(AfterRelease)
    BY <1>b, <1>d, <1>e, <1>1, <1>2, <1>3, <1>7, <1>8, GLGotoBase
  <1>9. CASE gl' = [gl EXCEPT !.pc = "revertPod", !.label = SeenPod(gl.lease.claim).label,
                              !.failing = gl.failing] /\ UNCHANGED current
    BY ZenonT(30), <1>b, <1>c, <1>e, <1>1, <1>2, <1>3, <1>4, <1>6, <1>7, <1>9, GLMoveBase
  <1> QED BY <1>5, <1>8, <1>9

\* The pod is labelled warm.
LEMMA revertPodBase ==
  ASSUME Base, UNCHANGED wp, revertPod
  PROVE  Base' /\ LeaseSteps
  <1>a. /\ wl \in [Slot -> WorkloadObj] /\ pod \in [Pods -> PodObj] /\ gl \in GLState
        /\ machine \in [Pods -> Machine(Slot)] /\ faults \in 0 .. MaxFaults
    BY DEF Base, TypeOK
  <1>b. gl.pc # "idle" /\ UNCHANGED <<lease, cache>>
    BY DEF revertPod
  <1>c. /\ gl.slot \in Slot /\ Planned(gl.pc, gl.lease, gl.failing)
        /\ gl.lease.claim \in Pods /\ gl.failing \in BOOLEAN
    BY <1>b, GLBusy
  <1>d. AfterRelease \in GLPc \ {"idle"}
    BY DEF AfterRelease, GLPc
  <1>e. gl.pc \in {"releasePod", "revertPod"} => Planned(AfterRelease, gl.lease, gl.failing)
                                                 /\ Planned("revertPod", gl.lease, gl.failing)
    BY <1>c DEF AfterRelease, Planned, Cleanup
  <1>1. UNCHANGED <<wl, machine, current>> /\ gl.pc = "revertPod"
    BY DEF revertPod
  <1>2. gl' = [gl EXCEPT !.pc = AfterRelease, !.label = "", !.failing = gl.failing]
    BY <1>a DEF revertPod, GLState
  <1>3. faults' \in 0 .. MaxFaults
    BY <1>a, FaultType DEF revertPod, Base
  <1>4. pod' \in [Pods -> PodObj]
    BY <1>a, <1>c, PatchLabelType DEF revertPod, PodState, Base
  <1> QED BY Zenon, <1>a, <1>b, <1>c, <1>d, <1>e, <1>1, <1>2, <1>3, <1>4, GLMoveBase

\* The calls of the GPULease worker that are no lease updates.
LEMMA GLCallsBase ==
  ASSUME Base, UNCHANGED wp,
         \/ createWorkload \/ deleteWorkload \/ activatePod \/ pollState \/ activationTimeout
         \/ markPodHot \/ releasePod \/ revertPod \/ glAbort
  PROVE  Base' /\ LeaseSteps
  <1>1. CASE activationTimeout
    <2>1. UNCHANGED <<lease, cache, wl, pod, machine, faults>>
      BY <1>1 DEF activationTimeout
    <2> QED BY <1>1, <2>1, GLFailBase DEF activationTimeout, Base, TypeOK
  <1>2. CASE glAbort
    <2>1. faults' \in 0 .. MaxFaults
      BY <1>2, FaultType DEF glAbort, Base
    <2> QED BY <1>2, <2>1, GLReturnBase DEF glAbort, Base, TypeOK
  <1> QED BY <1>1, <1>2, createWorkloadBase, deleteWorkloadBase, activatePodBase, pollStateBase,
             markPodHotBase, releasePodBase, revertPodBase

-----------------------------------------------------------------------------
(* Claims and GPUs stay on their node *)

\* The claim a worker's copy names is its lease's for as long as it has a copy.
LEMMA GLKeepsClaim ==
  ASSUME Base, GLCall \/ glAbort
  PROVE  /\ gl.pc # "idle"
         /\ gl'.pc = "idle" \/ (gl'.slot = gl.slot /\ gl'.lease.claim = gl.lease.claim)
  <1>1. gl \in GLState
    BY DEF Base, TypeOK
  <1>2. gl.pc # "idle"
    BY DEF GLCall, glAbort, addFinalizer, recordWorkload, admitLease, setActivating, setBound, setFailed,
           setReleasing, removeFinalizer, GLUpdate, createWorkload, deleteWorkload, activatePod,
           pollState, activationTimeout, markPodHot, releasePod, revertPod
  <1>3. ASSUME GLReturn PROVE gl'.pc = "idle"
    <2>1. gl' = GLIdle
      BY <1>3 DEF GLReturn
    <2> QED BY <2>1 DEF GLIdle
  <1>4. ASSUME \/ GLFail \/ \E pc : GLGoto(pc)
               \/ \E pc, label : gl' = [gl EXCEPT !.pc = pc, !.label = label]
        PROVE  gl'.slot = gl.slot /\ gl'.lease = gl.lease
    BY Zenon, <1>1, <1>4 DEF GLFail, GLGoto, GLState
  <1>5. ASSUME NEW at, NEW new, GLUpdate(at, new, "idle") PROVE gl'.pc = "idle"
    <2>1. gl' = GLIdle
      BY <1>5 DEF GLUpdate, GLReturn
    <2> QED BY <2>1 DEF GLIdle
  <1>6. CASE \/ addFinalizer \/ recordWorkload \/ admitLease \/ setActivating \/ setBound
             \/ setFailed \/ removeFinalizer
    BY <1>2, <1>5, <1>6 DEF addFinalizer, recordWorkload, admitLease, setActivating, setBound, setFailed,
                            removeFinalizer
  <1>7. CASE setReleasing
    <2> DEFINE new == [gl.lease EXCEPT !.phase = "Releasing"]
    <2>1. gl.lease \in Stored
      BY <1>1, <1>2, LeaseEdit DEF Base, GLPlan, Planned, GLState
    <2>2. new.claim = gl.lease.claim
      BY <2>1 DEF Stored
    <2>3. GLReturn \/ gl' = [gl EXCEPT !.pc = "deleteWorkload", !.lease = new]
      BY <1>7 DEF setReleasing, GLUpdate
    <2> HIDE DEF new
    <2> QED BY <1>1, <1>2, <1>3, <2>2, <2>3 DEF GLState
  <1>8. CASE createWorkload \/ deleteWorkload \/ activatePod \/ pollState \/ activationTimeout \/ glAbort
    BY ZenonT(30), <1>2, <1>3, <1>4, <1>8 DEF createWorkload, deleteWorkload, activatePod, pollState,
                                  activationTimeout, glAbort
  <1>9. CASE markPodHot \/ releasePod \/ revertPod
    BY ZenonT(30), <1>2, <1>3, <1>4, <1>9 DEF markPodHot, releasePod, revertPod
  <1> QED BY <1>6, <1>7, <1>8, <1>9 DEF GLCall

\* The GPULease worker creates no lease, and hands a pod only the GPU its copy
\* is of.
LEMMA GLPlaced ==
  ASSUME Base, Base', Placed, LeaseSteps, GLNext, UNCHANGED wp
  PROVE  Placed'
  <1>1. /\ gl \in GLState /\ pod \in [Pods -> PodObj] /\ machine \in [Pods -> Machine(Slot)]
        /\ TypeOK
    BY DEF Base, TypeOK
  <1>2. gl.pc # "idle" => gl.slot \in Slot /\ gl.lease.claim \in Pods /\ Fits(gl.slot, gl.lease)
                          /\ gl.lease.phase # "none"
    <2>1. gl.pc # "idle" => gl.slot \in Slot /\ gl.lease.phase # "none"
      BY DEF Base, GLPlan, Planned
    <2> QED BY <1>1, <2>1, LeaseEdit DEF GLState, Stored, Placed
  <1>3. UNCHANGED cache
    <2>1. ASSUME NEW s \in Slot, GLStart(s) PROVE UNCHANGED cache
      BY <2>1 DEF GLStart, beginDeletion, beginAddFinalizer, reconcilePending, admissionTimeout,
                  reconcileAdmitted, reconcileActivating, reconcileBound, GLBeginFailing, GLBegin
    <2>2. ASSUME GLCall \/ glAbort PROVE UNCHANGED cache
      BY <2>2 DEF GLCall, glAbort, addFinalizer, recordWorkload, admitLease, setActivating, setBound,
                  setFailed, setReleasing, removeFinalizer, GLUpdate, createWorkload, deleteWorkload,
                  activatePod, pollState, activationTimeout, markPodHot, releasePod, revertPod
    <2> QED BY <2>1, <2>2 DEF GLNext
  <1>4. \A p \in Pods : pod'[p].st = pod[p].st
    <2>1. \/ pod' = pod
          \/ gl.pc # "idle" /\ \E label : pod' = [pod EXCEPT ![gl.lease.claim].label = label]
      <3>1. ASSUME NEW s \in Slot, GLStart(s) PROVE pod' = pod
        BY <3>1 DEF GLStart, beginDeletion, beginAddFinalizer, reconcilePending, admissionTimeout,
                    reconcileAdmitted, reconcileActivating, reconcileBound, GLBeginFailing, GLBegin
      <3>2. ASSUME \/ addFinalizer \/ recordWorkload \/ admitLease \/ setActivating \/ setBound
                   \/ setFailed \/ setReleasing \/ removeFinalizer \/ createWorkload \/ deleteWorkload
                   \/ activatePod \/ pollState \/ activationTimeout \/ releasePod \/ glAbort
            PROVE  pod' = pod
        BY <3>2 DEF glAbort, addFinalizer, recordWorkload, admitLease, setActivating, setBound,
                    setFailed, setReleasing, removeFinalizer, GLUpdate, createWorkload, deleteWorkload,
                    activatePod, pollState, activationTimeout, releasePod
      <3>3. ASSUME markPodHot \/ revertPod
            PROVE  \/ pod' = pod
                   \/ gl.pc # "idle" /\ \E label : pod' = [pod EXCEPT ![gl.lease.claim].label = label]
        BY Zenon, <3>3 DEF markPodHot, revertPod, PatchLabel
      <3> QED BY Zenon, <3>1, <3>2, <3>3 DEF GLNext, GLCall
    <2>2. CASE pod' = pod
      BY <2>2
    <2>3. CASE gl.pc # "idle" /\ \E label : pod' = [pod EXCEPT ![gl.lease.claim].label = label]
      <3>1. PICK label : pod' = [pod EXCEPT ![gl.lease.claim].label = label]
        BY Zenon, <2>3
      <3> QED BY <1>1, <3>1 DEF PodObj
    <2> QED BY <2>1, <2>2, <2>3
  <1>5. PodsSeen' /\ \A p \in Pods : SeenPod(p)'.st = SeenPod(p).st
    BY <1>3, <1>4, SeenKept
  <1>6. ASSUME NEW s \in Slot, ~Exists(s) PROVE Fits(s, lease'[s])
    <2>1. CASE lease' = lease
      BY <2>1 DEF Placed
    <2>2. ASSUME GLCall, lease' # lease PROVE lease'[s] = lease[s]
      <3>1. GLFresh /\ gl.pc # "idle" /\ \E new, H : PutLease(gl.slot, new, H)
        <4>1. ASSUME NEW at, NEW new, NEW then, GLUpdate(at, new, then), lease' # lease, at # "idle"
              PROVE  GLFresh /\ gl.pc # "idle" /\ \E H : PutLease(gl.slot, new, H)
          BY <4>1 DEF GLUpdate
        <4> QED BY <2>2, <4>1 DEF GLCall, addFinalizer, recordWorkload, admitLease, setActivating,
                    setBound, setFailed, setReleasing, removeFinalizer, createWorkload, deleteWorkload,
                    activatePod, pollState, activationTimeout, markPodHot, releasePod, revertPod
      <3>2. Exists(gl.slot)
        BY <1>2, <3>1 DEF GLFresh, Base, Copies, Exists
      <3> QED BY <1>1, <1>6, <3>1, <3>2 DEF PutLease, TypeOK
    <2>3. ASSUME NEW t \in Slot, GLStart(t) PROVE lease' = lease
      BY <2>3 DEF GLStart, beginDeletion, beginAddFinalizer, reconcilePending, admissionTimeout,
                  reconcileAdmitted, reconcileActivating, reconcileBound, GLBeginFailing, GLBegin
    <2>4. CASE glAbort
      BY <2>1, <2>4 DEF glAbort
    <2> QED BY <2>1, <2>2, <2>3, <2>4 DEF GLNext, Placed
  <1>7. gl'.pc # "idle" => Fits(gl'.slot, gl'.lease)
    <2>1. ASSUME NEW s, NEW pc, NEW label, NEW failing, GLBegin(s, pc, label, failing)
          PROVE  gl'.slot = s /\ gl'.lease = SeenLease(s)
      BY <2>1 DEF GLBegin
    <2>2. ASSUME NEW s \in Slot, GLStart(s) PROVE gl'.slot = s /\ gl'.lease = SeenLease(s)
      BY <2>1, <2>2 DEF GLStart, beginDeletion, beginAddFinalizer, reconcilePending, admissionTimeout,
                        reconcileAdmitted, reconcileActivating, reconcileBound, GLBeginFailing
    <2>3. \A s \in Slot : Fits(s, SeenLease(s))
      BY DEF SeenLease, Placed
    <2>4. CASE GLCall \/ glAbort
      BY <1>2, <2>4, GLKeepsClaim DEF Fits
    <2> QED BY <2>2, <2>3, <2>4 DEF GLNext
  <1>8. ASSUME NEW p \in Pods, NEW s \in Slot, Uses(machine'[p], s)
        PROVE  Uses(machine[p], s) \/ s[1] = NodeOf[p]
    <2>1. CASE machine' = machine
      BY <1>8, <2>1
    <2>2. CASE releasePod
      <3>1. machine'[p] = machine[p] \/ machine'[p] = Released(machine[p])
        BY <1>1, <1>2, <2>2 DEF releasePod
      <3> QED BY <1>1, <1>8, <3>1 DEF Uses, Released, Machine, WarmMachine, PodState
    <2>3. CASE activatePod
      <3>1. \/ machine'[p] = machine[p]
            \/ p = gl.lease.claim /\ machine'[p] = Activated(machine[p], gl.slot)
        BY <1>1, <1>2, <2>3 DEF activatePod
      <3>2. gl.slot[1] = NodeOf[gl.lease.claim]
        BY <1>2, <2>3 DEF activatePod, Fits
      <3> QED BY <1>1, <1>8, <3>1, <3>2 DEF Uses, Activated, Machine
    <2>4. ASSUME NEW t \in Slot, GLStart(t) PROVE machine' = machine
      BY ZenonT(30), <2>4 DEF GLStart, beginDeletion, beginAddFinalizer, reconcilePending,
                              admissionTimeout,
                  reconcileAdmitted, reconcileActivating, reconcileBound, GLBeginFailing, GLBegin
    <2>5. ASSUME (GLCall \/ glAbort) /\ ~releasePod /\ ~activatePod PROVE machine' = machine
      BY <2>5 DEF GLCall, glAbort, addFinalizer, recordWorkload, admitLease, setActivating, setBound,
                  setFailed, setReleasing, removeFinalizer, GLUpdate, createWorkload, deleteWorkload,
                  pollState, activationTimeout, markPodHot, revertPod
    <2> QED BY <2>1, <2>2, <2>3, <2>4, <2>5 DEF GLNext
  <1>9. \A p \in wp'.cands : SeenPod(p).st # "none"
    BY DEF Placed
  <1> QED BY <1>3, <1>5, <1>6, <1>7, <1>8, <1>9, PlacedMove

-----------------------------------------------------------------------------
(* Quota gates activation *)

\* Only admitLease admits, and reconcilePending gets there only from an
\* admitted Workload.
LEMMA GLGated ==
  ASSUME "workload" \notin Stale, Base, Safe', Gated, GLNext
  PROVE  GateHolds
  <1>1. /\ gl \in GLState /\ wl \in [Slot -> WorkloadObj] /\ lease \in [Slot -> LeaseObj]
        /\ gl.pc # "idle" => gl.slot \in Slot
    BY DEF Base, TypeOK, GLPlan
  <1>2. ASSUME UNCHANGED <<lease, wl>>, gl'.pc # "admitLease" PROVE GateHolds
    BY <1>2 DEF Gated, GateHolds
  <1>3. ASSUME NEW s \in Slot, GLStart(s) PROVE GateHolds
    <2>1. UNCHANGED <<lease, wl>>
      BY ZenonT(30), <1>3 DEF GLStart, beginDeletion, beginAddFinalizer, reconcilePending,
                              admissionTimeout,
                  reconcileAdmitted, reconcileActivating, reconcileBound, GLBeginFailing, GLBegin
    <2>2. gl'.pc # "admitLease" \/ (gl'.slot = s /\ wl[s].st = "admitted")
      <3>1. CASE reconcilePending(s)
        <4>1. \E pc \in {"admitLease", "createWorkload", "deleteWorkload"} : \E label, failing :
                /\ gl' = [pc |-> pc, slot |-> s, lease |-> SeenLease(s), label |-> label, failing |-> failing]
                /\ pc = "admitLease" => wl[s].st = "admitted"
          BY <3>1 DEF reconcilePending, GLBeginFailing, GLBegin, SeenWorkload
        <4> QED BY <4>1
      <3>2. CASE beginDeletion(s)
        <4>1. \E pc \in {"deleteWorkload", "setReleasing"} : \E label, failing :
                gl' = [pc |-> pc, slot |-> s, lease |-> SeenLease(s), label |-> label, failing |-> failing]
          BY Zenon, <3>2 DEF beginDeletion, GLBegin
        <4> QED BY <4>1
      <3>3. CASE \/ beginAddFinalizer(s) \/ admissionTimeout(s) \/ reconcileAdmitted(s)
                 \/ reconcileActivating(s) \/ reconcileBound(s)
        <4>1. \E pc \in {"addFinalizer", "deleteWorkload", "activatePod", "pollState"} : \E label, failing :
                gl' = [pc |-> pc, slot |-> s, lease |-> SeenLease(s), label |-> label, failing |-> failing]
          BY Zenon, <3>3 DEF beginAddFinalizer, admissionTimeout, reconcileAdmitted, reconcileActivating,
                      reconcileBound, GLBeginFailing, GLBegin
        <4> QED BY <4>1
      <3> QED BY <1>3, <3>1, <3>2, <3>3 DEF GLStart
    <2> QED BY <2>1, <2>2 DEF Gated, GateHolds
  <1>4. ASSUME NEW at, NEW new, NEW then, GLUpdate(at, new, then), at # "idle", then # "admitLease",
               \/ at = "admitLease" \/ new.phase # "Admitted" \/ gl.lease.phase = "Admitted"
        PROVE  GateHolds
    <2>1. gl.pc = at /\ gl.slot \in Slot
      BY <1>1, <1>4 DEF GLUpdate
    <2>2. gl'.pc # "admitLease"
      <3>1. gl' = GLIdle \/ gl' = [gl EXCEPT !.pc = then, !.lease = new]
        BY <1>4 DEF GLUpdate, GLReturn
      <3>2. GLIdle.pc = "idle"
        BY DEF GLIdle
      <3>3. [gl EXCEPT !.pc = then, !.lease = new].pc = then
        BY <1>1 DEF GLState
      <3> QED BY Zenon, <1>4, <3>1, <3>2, <3>3
    <2>3. CASE UNCHANGED <<lease, wl>>
      BY <1>2, <2>2, <2>3
    <2>4. ASSUME NEW H, GLFresh, PutLease(gl.slot, new, H) PROVE GateHolds
      <3>1. \A t \in Slot : wl'[t].st # "none" => wl'[t].owned
        BY <2>1, <2>4, PutGated
      <3>2. gl.lease = lease[gl.slot]
        BY <2>1, <2>4 DEF GLFresh, Base, Copies
      <3>3. \A t \in Slot : lease'[t] = IF t = gl.slot THEN new ELSE lease[t]
        BY <1>1, <2>1, <2>4 DEF PutLease
      <3>4. ASSUME NEW t \in Slot, lease[t].phase = "Pending", lease'[t].phase = "Admitted"
            PROVE  wl[t].st = "admitted"
        BY <1>4, <2>1, <3>2, <3>3, <3>4 DEF Gated
      <3> QED BY <2>2, <3>1, <3>4 DEF Gated, GateHolds
    <2> QED BY <1>4, <2>3, <2>4 DEF GLUpdate
  <1>5. CASE \/ addFinalizer \/ recordWorkload \/ admitLease \/ setActivating \/ setBound
             \/ setFailed \/ setReleasing \/ removeFinalizer
    <2>1. gl.pc # "idle" => gl.lease \in Stored
      BY <1>1, LeaseEdit DEF Base, GLPlan, Planned, GLState
    <2>2. ASSUME gl.pc # "idle"
          PROVE  /\ [gl.lease EXCEPT !.fin = TRUE].phase = gl.lease.phase
                 /\ [gl.lease EXCEPT !.named = TRUE].phase = gl.lease.phase
                 /\ \A ph : [gl.lease EXCEPT !.phase = ph].phase = ph
      BY <2>1, <2>2 DEF Stored
    <2>3. CASE addFinalizer \/ recordWorkload
      <3>1. gl.pc # "idle"
        BY <2>3 DEF addFinalizer, recordWorkload, GLUpdate
      <3> QED BY Zenon, <1>4, <2>2, <2>3, <3>1 DEF addFinalizer, recordWorkload
    <2>4. CASE admitLease
      BY <1>4, <2>4 DEF admitLease
    <2>5. CASE setActivating \/ setBound \/ setFailed \/ setReleasing
      <3>1. gl.pc # "idle"
        BY <2>5 DEF setActivating, setBound, setFailed, setReleasing, GLUpdate
      <3> QED BY Zenon, <1>4, <2>2, <2>5, <3>1 DEF setActivating, setBound, setFailed, setReleasing
    <2>6. CASE removeFinalizer
      <3>1. Absent.phase # "Admitted"
        BY DEF Absent
      <3> QED BY <1>4, <2>6, <3>1 DEF removeFinalizer
    <2> QED BY <1>5, <2>3, <2>4, <2>5, <2>6
  <1>6. ASSUME GLReturn PROVE gl'.pc # "admitLease"
    <2>1. gl' = GLIdle
      BY <1>6 DEF GLReturn
    <2> QED BY <2>1 DEF GLIdle
  <1>7. GLFail => gl'.pc # "admitLease"
    BY <1>1 DEF GLFail, GLState
  <1>8. \A pc : GLGoto(pc) => gl'.pc = pc
    BY <1>1 DEF GLGoto, GLState
  <1>9. CASE createWorkload
    <2>1. gl.slot \in Slot /\ lease' = lease /\ gl'.pc # "admitLease"
      BY <1>1, <1>6, <1>8, <1>9 DEF createWorkload
    <2>2. CASE wl' = wl
      BY <1>2, <2>1, <2>2
    <2>3. CASE wl' = [wl EXCEPT ![gl.slot] = [st |-> "pending", owned |-> Exists(gl.slot)]]
      <3>1. wl'[gl.slot].st = "pending" /\ wl'[gl.slot].owned = Exists(gl.slot)
        BY <1>1, <2>1, <2>3
      <3>2. Exists(gl.slot)
        BY <2>1, <3>1 DEF Safe, QuotaFreedFirst, Exists
      <3> QED BY <1>1, <2>1, <2>3, <3>1, <3>2 DEF Gated, GateHolds
    <2> QED BY <1>9, <2>2, <2>3 DEF createWorkload
  <1>10. CASE deleteWorkload
    <2>1. gl.slot \in Slot /\ lease' = lease /\ gl'.pc # "admitLease"
      BY <1>1, <1>8, <1>10 DEF deleteWorkload
    <2>2. wl' = [wl EXCEPT ![gl.slot] = NoWorkload]
      BY <1>10 DEF deleteWorkload
    <2> QED BY <1>1, <2>1, <2>2 DEF Gated, GateHolds, NoWorkload
  <1>11. CASE activatePod \/ pollState \/ activationTimeout \/ glAbort
    BY <1>2, <1>6, <1>7, <1>8, <1>11 DEF activatePod, pollState, activationTimeout, glAbort
  <1>12. CASE markPodHot \/ releasePod \/ revertPod
    <2>1. \/ GLReturn \/ GLGoto(AfterRelease)
          \/ \E pc \in {"setBound", "revertPod", AfterRelease} : \E label :
               gl' = [gl EXCEPT !.pc = pc, !.label = label]
      BY ZenonT(30), <1>12 DEF markPodHot, releasePod, revertPod
    <2>2. gl'.pc # "admitLease"
      BY Zenon, <1>1, <1>6, <1>8, <2>1 DEF GLState, AfterRelease
    <2> QED BY <1>2, <1>12, <2>2 DEF markPodHot, releasePod, revertPod
  <1> QED BY <1>3, <1>5, <1>9, <1>10, <1>11, <1>12 DEF GLNext, GLCall
=============================================================================
