---------------------------- MODULE PodLifecycle ----------------------------
(***************************************************************************)
(* What one workload pod promises its callers: the four-state lifecycle    *)
(* with atomic steps and no timers.  PodMachine implements it; the         *)
(* controllers' model (LeaseSystem) relies on it for every pod.            *)
(***************************************************************************)
EXTENDS PodProtocol

CONSTANT Leases     \* the lease names a caller may send

VARIABLE machine

Init == machine = WarmMachine

Activate(l) == machine' = Activated(machine, l)

Release == machine' = Released(machine)

WarmupDone == machine.state = "activating" /\ machine' = WarmedUp(machine)

TeardownDone == machine.state = "releasing" /\ machine' = TornDown(machine)

Next ==
  \/ \E l \in Leases : Activate(l)
  \/ Release
  \/ WarmupDone
  \/ TeardownDone

\* A warmup or a teardown that nobody cancels completes.
Spec ==
  /\ Init /\ [][Next]_machine
  /\ WF_machine(WarmupDone) /\ WF_machine(TeardownDone)
=============================================================================
