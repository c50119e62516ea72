----------------------------- MODULE PodServer -----------------------------
(***************************************************************************)
(* The pod's HTTP server (internal/workload/server.go) around its machine: *)
(* POST and DELETE /lease are PodMachine's Activate and Release, and POST  *)
(* /infer serves a request while the machine may move on.  Requests do not *)
(* interact, so one in service stands for all.  One that is refused (503,  *)
(* the machine is not hot), GET /state, /healthz and /readyz change        *)
(* nothing.                                                                *)
(***************************************************************************)
EXTENDS PodMachine

CONSTANT InferLatency    \* the longest simulated inference, in ticks

\* 20 to 39 ms against a teardown counted in seconds.
ASSUME ServerAssumption == InferLatency \in Nat \ {0} /\ InferLatency < Teardown

VARIABLE infer    \* the request in service: its lease and its remaining ticks

serverVars == <<vars, infer>>

NoInfer == [lease |-> NoLease, left |-> 0]

Infer == {NoInfer} \cup [lease : Leases, left : 0 .. InferLatency]

ServerInit == Init /\ infer = NoInfer

\* Mutant: handleInfer serves a pod that is tearing down.
handleInferReleasing ==
  /\ infer = NoInfer /\ machine.state \in {"hot", "releasing"}
  /\ \E d \in 1 .. InferLatency : infer' = [lease |-> machine.lease, left |-> d]
  /\ UNCHANGED vars

\* IsHot takes the lock and gives it back; the latency is slept without it.
handleInfer ==
  /\ infer = NoInfer /\ machine.state = "hot"
  /\ \E d \in 1 .. InferLatency : infer' = [lease |-> machine.lease, left |-> d]
  /\ UNCHANGED vars

\* The answer is written, or the caller has gone away before it.
inferReturns ==
  /\ infer # NoInfer /\ infer' = NoInfer
  /\ UNCHANGED vars

\* Time passes.  The sleep of a request, unlike the machine's timers, is taken
\* to end on time: what InferUnderLease says needs the handler to wake before
\* a whole teardown has gone by.
ServerTick ==
  /\ infer # NoInfer => infer.left > 0
  /\ Tick
  /\ infer' = IF infer = NoInfer THEN infer ELSE [infer EXCEPT !.left = @ - 1]

ServerNext ==
  \/ /\ (\E l \in Leases : Activate(l)) \/ Release \/ RunTimer \/ RunHook
     /\ UNCHANGED infer
  \/ ServerTick
  \/ handleInfer
  \/ inferReturns

ServerSpec ==
  /\ ServerInit /\ [][ServerNext]_serverVars
  /\ WF_serverVars(ServerTick) /\ WF_serverVars(inferReturns)
  /\ WF_serverVars(RunTimer /\ UNCHANGED infer)
  /\ WF_serverVars(RunHook /\ UNCHANGED infer)
-----------------------------------------------------------------------------
\* An inference that was accepted runs to its end under the lease it was
\* accepted under: the teardown after DELETE /lease outlasts it, so the pod is
\* not warm, let alone on another lease, while it still computes.
InferUnderLease ==
  infer # NoInfer =>
    machine.state \in {"hot", "releasing"} /\ machine.lease = infer.lease
=============================================================================
