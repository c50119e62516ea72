------------------------- MODULE GPULeaseReconciler -------------------------
(***************************************************************************)
(* The GPULease reconciler (internal/controller/gpulease_controller.go):   *)
(* one worker, which takes a lease through Pending, Admitted, Activating   *)
(* and Bound, fails it, and releases it under its finalizer.  A reconcile  *)
(* begins by reading lease, Workload and pod from the caches; each API or  *)
(* HTTP call it then makes is a step, after which others may act.          *)
(***************************************************************************)
EXTENDS Cluster

VARIABLE gl   \* the worker: where it is, its lease copy, the pod label it saw

GLPc == {"idle", "addFinalizer", "createWorkload", "recordWorkload", "admitLease",
         "activatePod", "setActivating", "pollState", "markPodHot", "setBound",
         "setReleasing", "deleteWorkload", "releasePod", "revertPod",
         "setFailed", "removeFinalizer"}

GLState == [pc : GLPc, slot : Slot \cup {NoLease}, lease : LeaseObj,
            label : PodState \cup {""}, failing : BOOLEAN]

GLIdle == [pc |-> "idle", slot |-> NoLease, lease |-> Absent,
           label |-> "", failing |-> FALSE]

\* Mutant: lease updates are written without a resourceVersion.
GLFreshAlways == TRUE

\* The worker's copy of the lease has the current resourceVersion.
GLFresh == "gl" \in current[gl.slot]

GLGoto(pc) == gl' = [gl EXCEPT !.pc = pc] /\ UNCHANGED current

\* Every return from Reconcile: the copy is dropped.
GLReturn ==
  /\ gl' = GLIdle
  /\ current' = [current EXCEPT ![gl.slot] = @ \ {"gl"}]

GLFail ==
  /\ gl' = [gl EXCEPT !.pc = "deleteWorkload", !.label = "", !.failing = TRUE]
  /\ UNCHANGED current

\* Reconcile reads lease s, finds it live with its finalizer and in phase ph.
GLReads(s, ph) ==
  /\ gl.pc = "idle"
  /\ SeenLease(s).phase = ph /\ ~SeenLease(s).del /\ SeenLease(s).fin

GLBegin(s, pc, label, failing) ==
  /\ gl' = [pc |-> pc, slot |-> s, lease |-> SeenLease(s),
            label |-> label, failing |-> failing]
  /\ current' = Copied("gl", {s})
  /\ UNCHANGED <<lease, wl, pod, machine, cache, faults>>

\* Mutant: transitionToFailed does not delete the Workload.
GLBeginFailingKeepsWorkload(s) == GLBegin(s, "releasePod", "", TRUE)

\* transitionToFailed starts by deleting the Workload.
GLBeginFailing(s) == GLBegin(s, "deleteWorkload", "", TRUE)

\* leaseOrphanReason without a selector: the claim pod is absent, terminating
\* or not Ready.  (Its node never differs: pods do not move.)
ClaimLost(s) == SeenPod(SeenLease(s).claim).st # "ready"

ClaimLabel(s) == SeenPod(SeenLease(s).claim).label

-----------------------------------------------------------------------------
(* Reconcile's dispatch. *)

beginDeletion(s) ==
  /\ gl.pc = "idle"
  /\ SeenLease(s).phase # "none" /\ SeenLease(s).del /\ SeenLease(s).fin
  /\ GLBegin(s, IF SeenLease(s).phase = "Releasing" THEN "deleteWorkload"
                                                  ELSE "setReleasing", "", FALSE)

beginAddFinalizer(s) ==
  /\ gl.pc = "idle"
  /\ SeenLease(s).phase # "none" /\ ~SeenLease(s).del /\ ~SeenLease(s).fin
  /\ GLBegin(s, "addFinalizer", "", FALSE)

\* Mutant: a lease is admitted as soon as its Workload exists.
reconcilePendingUngated(s) ==
  /\ GLReads(s, "Pending")
  /\ \/ SeenWorkload(s).st = "none" /\ GLBegin(s, "createWorkload", "", FALSE)
     \/ SeenWorkload(s).st \in {"pending", "admitted"} /\ GLBegin(s, "admitLease", "", FALSE)
     \/ SeenWorkload(s).st = "inadmissible" /\ GLBeginFailing(s)

reconcilePending(s) ==
  /\ GLReads(s, "Pending")
  /\ \/ SeenWorkload(s).st = "none" /\ GLBegin(s, "createWorkload", "", FALSE)
     \/ SeenWorkload(s).st = "admitted" /\ GLBegin(s, "admitLease", "", FALSE)
     \/ SeenWorkload(s).st = "inadmissible" /\ GLBeginFailing(s)

\* evaluateAdmission once admission-timeout has elapsed.
admissionTimeout(s) ==
  /\ GLReads(s, "Pending")
  /\ SeenWorkload(s).st = "pending"
  /\ GLBeginFailing(s)

reconcileAdmitted(s) ==
  /\ GLReads(s, "Admitted")
  /\ IF ClaimLost(s) THEN GLBeginFailing(s)
                     ELSE GLBegin(s, "activatePod", "", FALSE)

reconcileActivating(s) ==
  /\ GLReads(s, "Activating")
  /\ IF ClaimLost(s) THEN GLBeginFailing(s)
                     ELSE GLBegin(s, "pollState", ClaimLabel(s), FALSE)

\* A Bound lease is only checked for a lost claim; its Workload and what the
\* pod's machine does are not looked at.
reconcileBound(s) ==
  /\ GLReads(s, "Bound")
  /\ ClaimLost(s)
  /\ GLBeginFailing(s)

-----------------------------------------------------------------------------
(* Lease updates: a copy that is not current conflicts, and the reconcile   *)
(* returns the error.                                                       *)

GLUpdate(at, new, then) ==
  /\ gl.pc = at
  /\ IF GLFresh
       THEN IF then = "idle"
              THEN PutLease(gl.slot, new, {}) /\ gl' = GLIdle
              ELSE /\ PutLease(gl.slot, new, {"gl"})
                   /\ gl' = [gl EXCEPT !.pc = then, !.lease = new]
       ELSE GLReturn /\ UNCHANGED <<lease, wl>>
  /\ UNCHANGED <<pod, machine, cache, faults>>

addFinalizer == GLUpdate("addFinalizer", [gl.lease EXCEPT !.fin = TRUE], "idle")

recordWorkload == GLUpdate("recordWorkload", [gl.lease EXCEPT !.named = TRUE], "idle")

admitLease == GLUpdate("admitLease", [gl.lease EXCEPT !.phase = "Admitted"], "idle")

setActivating == GLUpdate("setActivating", [gl.lease EXCEPT !.phase = "Activating"], "idle")

setBound == GLUpdate("setBound", [gl.lease EXCEPT !.phase = "Bound"], "idle")

setFailed == GLUpdate("setFailed", [gl.lease EXCEPT !.phase = "Failed"], "idle")

\* Mutant: reconcileDeletion goes on without deleting the Workload.
setReleasingKeepsWorkload ==
  GLUpdate("setReleasing", [gl.lease EXCEPT !.phase = "Releasing"], "releasePod")

setReleasing ==
  GLUpdate("setReleasing", [gl.lease EXCEPT !.phase = "Releasing"], "deleteWorkload")

\* The copy has a deletionTimestamp, so removing the finalizer removes it.
removeFinalizer == GLUpdate("removeFinalizer", Absent, "idle")

-----------------------------------------------------------------------------
(* Workload calls. *)

\* createWorkload: AlreadyExists is tolerated; the name is recorded once.
createWorkload ==
  /\ gl.pc = "createWorkload"
  /\ wl' = IF wl[gl.slot].st # "none" THEN wl
           ELSE [wl EXCEPT ![gl.slot] = [st |-> "pending", owned |-> Exists(gl.slot)]]
  /\ IF gl.lease.named THEN GLReturn ELSE GLGoto("recordWorkload")
  /\ UNCHANGED <<lease, pod, machine, cache, faults>>

\* Where releaseClaimPod, shared by transitionToFailed and reconcileDeletion,
\* returns to.
AfterRelease == IF gl.failing THEN "setFailed" ELSE "removeFinalizer"

\* Mutant: the pod is not released.
deleteWorkloadOnly ==
  /\ gl.pc = "deleteWorkload"
  /\ wl' = [wl EXCEPT ![gl.slot] = NoWorkload]
  /\ GLGoto(AfterRelease)
  /\ UNCHANGED <<lease, pod, machine, cache, faults>>

deleteWorkload ==
  /\ gl.pc = "deleteWorkload"
  /\ wl' = [wl EXCEPT ![gl.slot] = NoWorkload]
  /\ GLGoto("releasePod")
  /\ UNCHANGED <<lease, pod, machine, cache, faults>>

-----------------------------------------------------------------------------
(* Calls to the claim pod. *)

\* POST /lease: 202 goes on to Activating; 409, and any other error, fails
\* the lease.  A lost request reaches no machine, a lost reply does.
activatePod ==
  LET p == gl.lease.claim
  IN /\ gl.pc = "activatePod"
     /\ \/ /\ Alive(p)
           /\ machine' = [machine EXCEPT ![p] = Activated(machine[p], gl.slot)]
           /\ \/ Accepts(machine[p], gl.slot) /\ GLGoto("setActivating") /\ UNCHANGED faults
              \/ ~Accepts(machine[p], gl.slot) /\ GLFail /\ UNCHANGED faults
              \/ Fault("lostReply") /\ GLFail
        \/ ~Alive(p) /\ GLFail /\ UNCHANGED <<machine, faults>>
        \/ Alive(p) /\ Fault("lostPost") /\ GLFail /\ UNCHANGED machine
     /\ UNCHANGED <<lease, wl, pod, cache>>

\* GET /state: "hot" binds the lease, whichever lease the pod is hot for;
\* anything else, an error included, is waited out.
pollState ==
  LET p == gl.lease.claim
  IN /\ gl.pc = "pollState"
     /\ IF Alive(p) /\ machine[p].state = "hot" THEN GLGoto("markPodHot") ELSE GLReturn
     /\ UNCHANGED <<lease, wl, pod, machine, cache, faults>>

\* reconcileActivating once activation-timeout has elapsed.
activationTimeout ==
  LET p == gl.lease.claim
  IN /\ gl.pc = "pollState"
     /\ ~(Alive(p) /\ machine[p].state = "hot")
     /\ GLFail
     /\ UNCHANGED <<lease, wl, pod, machine, cache, faults>>

\* bindLease patches the pod first; a pod that is gone is an error.
markPodHot ==
  LET p == gl.lease.claim
  IN /\ gl.pc = "markPodHot"
     /\ IF Alive(p)
          THEN /\ PatchLabel(p, gl.label, "hot")
               /\ gl' = [gl EXCEPT !.pc = "setBound", !.label = ""]
               /\ UNCHANGED current
          ELSE GLReturn /\ UNCHANGED pod
     /\ UNCHANGED <<lease, wl, machine, cache, faults>>

\* releaseClaimPod: DELETE /lease, best effort.  It names no lease.
releasePod ==
  LET p == gl.lease.claim
  IN /\ gl.pc = "releasePod"
     /\ IF SeenPod(p).st \in {"none", "gone"}
          THEN GLGoto(AfterRelease) /\ UNCHANGED <<machine, faults>>
          ELSE /\ gl' = [gl EXCEPT !.pc = "revertPod", !.label = SeenPod(p).label]
               /\ UNCHANGED current
               /\ \/ machine' = [machine EXCEPT ![p] = Released(machine[p])]
                     /\ UNCHANGED faults
                  \/ Fault("lostDelete") /\ UNCHANGED machine
     /\ UNCHANGED <<lease, wl, pod, cache>>

\* Mutant: the pod keeps its label.
revertPodSkipped ==
  /\ gl.pc = "revertPod"
  /\ gl' = [gl EXCEPT !.pc = AfterRelease, !.label = ""]
  /\ UNCHANGED <<lease, wl, pod, machine, cache, current, faults>>

\* revertPodToWarm, best effort.
revertPod ==
  LET p == gl.lease.claim
  IN /\ gl.pc = "revertPod"
     /\ gl' = [gl EXCEPT !.pc = AfterRelease, !.label = ""]
     /\ UNCHANGED current
     /\ \/ /\ IF Alive(p) THEN PatchLabel(p, gl.label, "warm") ELSE UNCHANGED pod
           /\ UNCHANGED faults
        \/ Fault("lostPatch") /\ UNCHANGED pod
     /\ UNCHANGED <<lease, wl, machine, cache>>

\* Any API call may fail, and the manager may crash: the reconcile ends where
\* it is and runs again from the start.
glAbort ==
  /\ gl.pc # "idle"
  /\ Fault("apiError")
  /\ GLReturn
  /\ UNCHANGED <<lease, wl, pod, machine, cache>>

GLStart(s) ==
  \/ beginDeletion(s) \/ beginAddFinalizer(s)
  \/ reconcilePending(s) \/ admissionTimeout(s)
  \/ reconcileAdmitted(s) \/ reconcileActivating(s) \/ reconcileBound(s)

GLCall ==
  \/ addFinalizer \/ recordWorkload \/ admitLease \/ setActivating \/ setBound
  \/ setFailed \/ setReleasing \/ removeFinalizer
  \/ createWorkload \/ deleteWorkload
  \/ activatePod \/ pollState \/ activationTimeout \/ markPodHot
  \/ releasePod \/ revertPod

GLNext == (\E s \in Slot : GLStart(s)) \/ GLCall \/ glAbort
=============================================================================
