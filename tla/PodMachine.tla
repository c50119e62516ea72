----------------------------- MODULE PodMachine -----------------------------
(***************************************************************************)
(* The pod's Machine (internal/workload/state.go) with its timers and the  *)
(* metrics hook (internal/workload/metrics.go).  Every lock-protected      *)
(* section is one step.  What a goroutine does after it unlocks - set the  *)
(* gauges one by one, then arm its timer - are steps of their own, so the  *)
(* hooks of two transitions interleave freely.  A timer counts down with   *)
(* Tick and may run arbitrarily late once it reaches 0.                    *)
(*                                                                         *)
(* Requests that are refused (another node, another lease, a teardown in   *)
(* progress), repeated POSTs and DELETEs that find nothing to release      *)
(* change nothing: they are stuttering steps of this specification.        *)
(***************************************************************************)
EXTENDS PodProtocol, Naturals

CONSTANTS
  Leases,      \* lease names callers send
  Warmup,      \* warmup duration, in ticks
  Teardown,    \* teardown duration, in ticks
  MaxGen       \* bound: no activation starts once gen has reached it

ASSUME MachineAssumption ==
  /\ NoLease \notin Leases
  /\ Warmup \in Nat \ {0} /\ Teardown \in Nat \ {0} /\ MaxGen \in Nat

VARIABLES
  machine,     \* Machine.state and Machine.leaseName
  gen,         \* Machine.gen, the generation counter
  age,         \* ticks since the current warmup or teardown began
  timers,      \* armed time.AfterFunc calls: [does, gen, left]
  hooks,       \* goroutines past their unlock: [new, lease, gen, at]
  podHot,      \* gauge gpulease_pod_hot
  podGPU       \* gauge gpulease_pod_gpu_id, as the lease it stands for

vars == <<machine, gen, age, timers, hooks, podHot, podGPU>>

\* The timer a transition into a transient state arms, and how long it runs.
TimerFor == [activating |-> "completeWarmup", releasing |-> "completeTeardown"]

\* Mutant: the two durations are swapped.
DurationSwapped == [completeWarmup |-> Teardown, completeTeardown |-> Warmup]

Duration == [completeWarmup |-> Warmup, completeTeardown |-> Teardown]

Timer == [does : {"completeWarmup", "completeTeardown"}, gen : Nat, left : Nat]

\* A goroutine about to run hook(Event) for the transition into state new.
Hook == [new : PodState, lease : Leases \cup {NoLease}, gen : Nat,
         at : {"podHot", "podGPU", "arm"}]

\* Mutant: the generation is captured before it is incremented.
HookForOldGen(m, g) == [new |-> m.state, lease |-> m.lease, gen |-> gen, at |-> "podHot"]

HookFor(m, g) == [new |-> m.state, lease |-> m.lease, gen |-> g, at |-> "podHot"]

-----------------------------------------------------------------------------
Init ==
  /\ machine = WarmMachine
  /\ gen = 0
  /\ age = 0
  /\ timers = {}
  /\ hooks = {}
  /\ podHot = FALSE
  /\ podGPU = NoLease

\* A transition made under the lock: the goroutine that made it still has to
\* report machine m and generation g to the hook.
Transition(m, g) ==
  /\ machine' = m
  /\ gen' = g
  /\ hooks' = hooks \cup {HookFor(m, g)}
  /\ UNCHANGED <<podHot, podGPU>>

\* Mutant: a pod that is still tearing down accepts a lease.
ActivateWhileReleasing(l) ==
  /\ machine.state \in {"warm", "releasing"}
  /\ gen < MaxGen
  /\ Transition([state |-> "activating", lease |-> l], gen + 1)
  /\ age' = 0
  /\ UNCHANGED timers

Activate(l) ==
  /\ machine.state = "warm"
  /\ gen < MaxGen
  /\ Transition(Activated(machine, l), gen + 1)
  /\ age' = 0
  /\ UNCHANGED timers

Release ==
  /\ machine.state \in {"activating", "hot"}
  /\ Transition(Released(machine), gen + 1)
  /\ age' = 0
  /\ UNCHANGED timers

\* Mutant: a timer acts whenever it finds the state it expects.
CurrentByState(t, s) == machine.state = s

\* completeWarmup and completeTeardown: a timer whose generation is no longer
\* current, or that finds the machine in another state, does nothing.
Current(t, s) == t.gen = gen /\ machine.state = s

completeWarmup(t) ==
  /\ t.does = "completeWarmup" /\ t.left = 0
  /\ timers' = timers \ {t}
  /\ IF Current(t, "activating")
       THEN Transition(WarmedUp(machine), gen)
       ELSE UNCHANGED <<machine, gen, hooks, podHot, podGPU>>
  /\ UNCHANGED age

completeTeardown(t) ==
  /\ t.does = "completeTeardown" /\ t.left = 0
  /\ timers' = timers \ {t}
  /\ IF Current(t, "releasing")
       THEN Transition(TornDown(machine), gen)
       ELSE UNCHANGED <<machine, gen, hooks, podHot, podGPU>>
  /\ UNCHANGED age

\* ApplyEvent sets the gauges one after the other, outside the lock ...
ApplyPodHot(h) ==
  /\ h.at = "podHot"
  /\ podHot' = (h.new = "hot")
  /\ hooks' = (hooks \ {h}) \cup {[h EXCEPT !.at = "podGPU"]}
  /\ UNCHANGED <<machine, gen, age, timers, podGPU>>

ApplyPodGPU(h) ==
  /\ h.at = "podGPU"
  /\ podGPU' = CASE h.new = "hot"  -> h.lease
                 [] h.new = "warm" -> NoLease
                 [] OTHER          -> podGPU
  /\ hooks' = IF h.new \in DOMAIN TimerFor
                THEN (hooks \ {h}) \cup {[h EXCEPT !.at = "arm"]}
                ELSE hooks \ {h}
  /\ UNCHANGED <<machine, gen, age, timers, podHot>>

\* ... and only then the goroutine arms the timer, with its own generation.
Arm(h) ==
  LET does == TimerFor[h.new]
  IN /\ h.at = "arm"
     /\ timers' = timers \cup
                    {[does |-> does, gen |-> h.gen, left |-> Duration[does]]}
     /\ hooks' = hooks \ {h}
     /\ UNCHANGED <<machine, gen, age, podHot, podGPU>>

\* Time passes: armed timers count down.  age stops counting at the longer
\* of the two durations, beyond which no property tells its values apart.
Tick ==
  /\ timers' = {[t EXCEPT !.left = IF @ = 0 THEN 0 ELSE @ - 1] : t \in timers}
  /\ age' = IF age < Warmup \/ age < Teardown THEN age + 1 ELSE age
  /\ UNCHANGED <<machine, gen, hooks, podHot, podGPU>>

RunTimer == \E t \in timers : completeWarmup(t) \/ completeTeardown(t)

RunHook == \E h \in hooks : ApplyPodHot(h) \/ ApplyPodGPU(h) \/ Arm(h)

Next ==
  \/ \E l \in Leases : Activate(l)
  \/ Release
  \/ RunTimer
  \/ RunHook
  \/ Tick

\* Time does not stop, and the Go scheduler runs every runnable goroutine.
Spec ==
  /\ Init /\ [][Next]_vars
  /\ WF_vars(Tick) /\ WF_vars(RunTimer) /\ WF_vars(RunHook)
-----------------------------------------------------------------------------
(* Properties *)

\* The types, with the machine's shape: it names a lease exactly when it is
\* not warm, so clearLeaseLocked runs on every way back to warm.
TypeOK ==
  /\ machine \in Machine(Leases)
  /\ gen \in Nat /\ age \in Nat
  /\ timers \subseteq Timer
  /\ hooks \subseteq Hook
  /\ podHot \in BOOLEAN
  /\ podGPU \in Leases \cup {NoLease}

\* No warmup is cut short: the pod reports hot only after a full WARMUP since
\* the POST that began this very activation, whatever stale timers of
\* cancelled activations are still armed.
FullWarmup ==
  [][machine.state = "activating" /\ machine'.state = "hot" => age >= Warmup]_vars

\* Likewise a hot pod is warm again only after a full TEARDOWN since DELETE.
FullTeardown ==
  [][machine.state = "releasing" /\ machine'.state = "warm" => age >= Teardown]_vars

\* A machine in a transient state always has a live timer to leave it by:
\* armed or about to be armed, of the current generation and the right kind.
LiveTimer(s) ==
  \/ \E t \in timers : t.gen = gen /\ t.does = TimerFor[s]
  \/ \E h \in hooks : h.gen = gen /\ h.new = s

NeverStranded == machine.state \in DOMAIN TimerFor => LiveTimer(machine.state)

\* The machine with its locks, generations and timers implements the atomic
\* lifecycle, including that warmups and teardowns complete.
Lifecycle == INSTANCE PodLifecycle WITH
               NoLease <- NoLease, Leases <- Leases, machine <- machine

ImplementsLifecycle == Lifecycle!Spec

\* What the help texts of gpulease_pod_hot and gpulease_pod_gpu_id say, once
\* every hook has run: 1 exactly when the pod is hot; the GPU of its lease, or
\* none.  (While it warms up or tears down the second is left as it was.)
PodGauges ==
  hooks = {} =>
    /\ podHot <=> machine.state = "hot"
    /\ machine.state \in {"warm", "hot"} => podGPU = machine.lease
=============================================================================
