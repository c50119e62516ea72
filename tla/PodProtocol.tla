---------------------------- MODULE PodProtocol ----------------------------
(***************************************************************************)
(* The lease protocol of a workload pod (internal/workload/state.go), as   *)
(* functions of the pod's machine: what POST /lease and DELETE /lease do   *)
(* to it, and which answer POST /lease gets.  A machine is its lifecycle   *)
(* state and the name of the lease it is committed to; node, GPU index and *)
(* model are determined by that name.                                      *)
(***************************************************************************)
CONSTANT NoLease    \* the empty lease name of a machine that holds none

PodState == {"warm", "activating", "hot", "releasing"}

\* NewMachine: every process starts warm and committed to nothing.
WarmMachine == [state |-> "warm", lease |-> NoLease]

\* A machine is committed to one of the leases L exactly while it is not warm.
Machine(L) == {WarmMachine} \cup [state : PodState \ {"warm"}, lease : L]

\* A machine that uses, or is about to use, the GPU of lease l.
Uses(m, l) == m.state \in {"activating", "hot"} /\ m.lease = l

\* POST /lease for l is answered 202 by a warm machine and by one already
\* committed to l; every other machine, a releasing one included, answers 409.
Accepts(m, l) == m.state = "warm" \/ Uses(m, l)

\* The machine after POST /lease for l: only a warm one starts a warmup.
Activated(m, l) ==
  IF m.state = "warm" THEN [state |-> "activating", lease |-> l] ELSE m

\* Mutant: DELETE /lease does not cancel a warmup.
ReleasedHotOnly(m) == IF m.state = "hot" THEN [m EXCEPT !.state = "releasing"] ELSE m

\* The machine after DELETE /lease.  The request names no lease: a warmup is
\* cancelled outright, a hot machine keeps its lease name while it tears down.
Released(m) ==
  CASE m.state = "activating" -> WarmMachine
    [] m.state = "hot"        -> [m EXCEPT !.state = "releasing"]
    [] OTHER                  -> m

\* The two asynchronous completions.
WarmedUp(m) == [m EXCEPT !.state = "hot"]

\* Mutant: the teardown forgets clearLeaseLocked.
TornDownUncleared(m) == [m EXCEPT !.state = "warm"]

TornDown(m) == WarmMachine
=============================================================================
