-------------------------- MODULE PodMachineProofs --------------------------
(***************************************************************************)
(* Proofs about PodMachine and the server around it for every set of       *)
(* leases, all durations and every bound on the generations.               *)
(***************************************************************************)
EXTENDS PodServer, TLAPS

\* The generation of a goroutine or a timer is never ahead of the machine's,
\* and only a transition into a transient state gets to arm a timer.
Generations ==
  /\ \A h \in hooks : h.gen <= gen /\ (h.at = "arm" => h.new \in {"activating", "releasing"})
  /\ \A t \in timers : t.gen <= gen

\* A timer of the current generation has, together with the time passed since
\* that generation began, its full duration.
FullCount == \A t \in timers : t.gen = gen => t.left + age >= Duration[t.does]

IInv == TypeOK /\ Generations /\ FullCount /\ NeverStranded

\* What the two tables hold.
LEMMA Tables ==
  /\ DOMAIN TimerFor = {"activating", "releasing"}
  /\ TimerFor["activating"] = "completeWarmup"
  /\ TimerFor["releasing"] = "completeTeardown"
  /\ Duration["completeWarmup"] = Warmup
  /\ Duration["completeTeardown"] = Teardown
  BY DEF TimerFor, Duration

\* The initial state satisfies the inductive invariant.
LEMMA InitIInv == Init => IInv
  <1> SUFFICES ASSUME Init PROVE IInv
    OBVIOUS
  <1>1. TypeOK /\ Generations /\ FullCount
    BY DEF Init, TypeOK, Generations, FullCount, Machine, WarmMachine, Timer, Hook
  <1>2. NeverStranded
    BY Tables DEF Init, NeverStranded, WarmMachine
  <1> QED BY <1>1, <1>2 DEF IInv

\* A transition under the lock changes the machine and its generation, and
\* leaves a goroutine that still has to report it.
LEMMA TransitionStep ==
  ASSUME IInv, NEW m \in Machine(Leases),
         NEW g \in Nat, Transition(m, g), g >= gen
  PROVE  /\ machine' = m /\ gen' = g
         /\ hooks' \subseteq Hook
         /\ podHot' = podHot /\ podGPU' = podGPU
         /\ \A h \in hooks' : h.gen <= gen' /\ (h.at = "arm" => h.new \in {"activating", "releasing"})
         /\ \E h \in hooks' : h.gen = gen' /\ h.new = machine'.state
  <1>1. m.state \in PodState /\ m.lease \in Leases \cup {NoLease}
    BY DEF Machine, WarmMachine, PodState
  <1>2. HookFor(m, g) \in Hook
    BY <1>1 DEF HookFor, Hook
  <1>3. hooks' = hooks \cup {HookFor(m, g)} /\ machine' = m /\ gen' = g
    BY DEF Transition
  <1>4. HookFor(m, g).gen = g /\ HookFor(m, g).new = m.state /\ HookFor(m, g).at = "podHot"
    BY DEF HookFor
  <1>5. \A h \in hooks : h.gen <= g
    BY DEF IInv, TypeOK, Generations, Hook
  <1> QED BY <1>2, <1>3, <1>4, <1>5 DEF Transition, IInv, TypeOK, Generations

\* A transition leaves a machine with a live timer, since its hook arms one.
LEMMA TransitionLive ==
  ASSUME \E h \in hooks' : h.gen = gen' /\ h.new = machine'.state
  PROVE  NeverStranded'
  BY DEF NeverStranded, LiveTimer

\* POST /lease preserves the inductive invariant.
LEMMA ActivateIInv ==
  ASSUME IInv, NEW l \in Leases, Activate(l)
  PROVE  IInv'
  <1> DEFINE m == [state |-> "activating", lease |-> l]
  <1>1. m \in Machine(Leases) /\ Activated(machine, l) = m
    BY DEF Activate, Activated, Machine, PodState
  <1>2. gen \in Nat /\ gen + 1 \in Nat /\ gen + 1 >= gen
    BY DEF IInv, TypeOK
  <1>3. /\ machine' = m /\ gen' = gen + 1
        /\ hooks' \subseteq Hook
        /\ podHot' = podHot /\ podGPU' = podGPU
        /\ \A h \in hooks' : h.gen <= gen' /\ (h.at = "arm" => h.new \in {"activating", "releasing"})
        /\ NeverStranded'
    BY <1>1, <1>2, TransitionStep, TransitionLive DEF Activate
  <1>4. timers' = timers /\ age' = 0
    BY DEF Activate
  <1>5. TypeOK'
    BY <1>1, <1>2, <1>3, <1>4 DEF IInv, TypeOK
  <1>6. Generations' /\ FullCount'
    BY <1>2, <1>3, <1>4 DEF IInv, TypeOK, Generations, FullCount, Timer
  <1> QED BY <1>3, <1>5, <1>6 DEF IInv

\* DELETE /lease preserves the inductive invariant.
LEMMA ReleaseIInv ==
  ASSUME IInv, Release
  PROVE  IInv'
  <1>1. Released(machine) \in Machine(Leases)
    BY DEF Release, Released, IInv, TypeOK, Machine, PodState, WarmMachine
  <1>2. gen \in Nat /\ gen + 1 \in Nat /\ gen + 1 >= gen
    BY DEF IInv, TypeOK
  <1>3. /\ machine' = Released(machine) /\ gen' = gen + 1
        /\ hooks' \subseteq Hook
        /\ podHot' = podHot /\ podGPU' = podGPU
        /\ \A h \in hooks' : h.gen <= gen' /\ (h.at = "arm" => h.new \in {"activating", "releasing"})
        /\ NeverStranded'
    BY <1>1, <1>2, TransitionStep, TransitionLive DEF Release
  <1>4. timers' = timers /\ age' = 0
    BY DEF Release
  <1>5. TypeOK'
    BY <1>1, <1>2, <1>3, <1>4 DEF IInv, TypeOK
  <1>6. Generations' /\ FullCount'
    BY <1>2, <1>3, <1>4 DEF IInv, TypeOK, Generations, FullCount, Timer
  <1> QED BY <1>3, <1>5, <1>6 DEF IInv

\* A timer that finds its generation and state current makes its transition,
\* and every other timer does nothing: the machine is never left without one.
LEMMA RunTimerIInv ==
  ASSUME IInv, RunTimer
  PROVE  IInv'
  <1>1. PICK t \in timers : completeWarmup(t) \/ completeTeardown(t)
    BY DEF RunTimer
  <1>2. timers' = timers \ {t} /\ age' = age /\ t \in Timer
    BY <1>1 DEF completeWarmup, completeTeardown, IInv, TypeOK
  <1>3. gen \in Nat /\ gen >= gen
    BY DEF IInv, TypeOK
  <1>4. CASE \/ completeWarmup(t) /\ Current(t, "activating")
             \/ completeTeardown(t) /\ Current(t, "releasing")
    <2> DEFINE m == IF machine.state = "activating" THEN WarmedUp(machine) ELSE TornDown(machine)
    <2>1. m \in Machine(Leases)
      BY DEF WarmedUp, TornDown, IInv, TypeOK, Machine, PodState, WarmMachine
    <2>2. Transition(m, gen)
      BY <1>4 DEF completeWarmup, completeTeardown, Current
    <2> HIDE DEF m
    <2>3. /\ machine' = m /\ gen' = gen
          /\ hooks' \subseteq Hook
          /\ podHot' = podHot /\ podGPU' = podGPU
          /\ \A h \in hooks' : h.gen <= gen' /\ (h.at = "arm" => h.new \in {"activating", "releasing"})
          /\ NeverStranded'
      BY <1>3, <2>1, <2>2, TransitionStep, TransitionLive
    <2>4. TypeOK'
      BY <1>2, <2>1, <2>3 DEF IInv, TypeOK
    <2>5. Generations' /\ FullCount'
      BY <1>2, <2>3 DEF IInv, Generations, FullCount
    <2> QED BY <2>3, <2>4, <2>5 DEF IInv
  <1>5. CASE ~(\/ completeWarmup(t) /\ Current(t, "activating")
               \/ completeTeardown(t) /\ Current(t, "releasing"))
    <2>1. UNCHANGED <<machine, gen, hooks, podHot, podGPU>>
      BY <1>1, <1>5 DEF completeWarmup, completeTeardown
    <2>2. TypeOK' /\ Generations' /\ FullCount'
      BY <1>2, <2>1 DEF IInv, TypeOK, Generations, FullCount
    <2>3. ASSUME machine.state \in DOMAIN TimerFor
          PROVE  ~(t.gen = gen /\ t.does = TimerFor[machine.state])
      BY <1>1, <1>5, <2>3, Tables DEF completeWarmup, completeTeardown, Current
    <2>4. NeverStranded'
      BY <1>2, <2>1, <2>3 DEF IInv, NeverStranded, LiveTimer
    <2> QED BY <2>2, <2>4 DEF IInv
  <1> QED BY <1>4, <1>5

\* Reporting a transition moves its goroutine on without losing the live timer
\* it is going to arm, and arming one hands it over.
LEMMA RunHookIInv ==
  ASSUME IInv, RunHook
  PROVE  IInv'
  <1>1. PICK h \in hooks : ApplyPodHot(h) \/ ApplyPodGPU(h) \/ Arm(h)
    BY DEF RunHook
  <1>2. h \in Hook /\ h.gen \in Nat /\ h.gen <= gen /\ gen \in Nat /\ age \in Nat
    BY DEF IInv, TypeOK, Generations, Hook
  <1>3. machine' = machine /\ gen' = gen /\ age' = age
    BY <1>1 DEF ApplyPodHot, ApplyPodGPU, Arm
  <1>4. podHot' \in BOOLEAN
    BY <1>1 DEF ApplyPodHot, ApplyPodGPU, Arm, IInv, TypeOK
  <1>5. podGPU' \in Leases \cup {NoLease}
    BY <1>1, <1>2 DEF ApplyPodHot, ApplyPodGPU, Arm, IInv, TypeOK, Hook
  <1>6. CASE Arm(h)
    <2> DEFINE t == [does |-> TimerFor[h.new], gen |-> h.gen, left |-> Duration[TimerFor[h.new]]]
    <2>1. h.new \in {"activating", "releasing"}
      BY <1>6 DEF Arm, IInv, Generations
    <2>2. t \in Timer /\ t.gen = h.gen /\ t.does = TimerFor[h.new] /\ t.left = Duration[t.does]
      BY <1>2, <2>1, Tables, MachineAssumption DEF Timer
    <2>3. timers' = timers \cup {t} /\ hooks' = hooks \ {h}
      BY <1>6 DEF Arm
    <2>4. Duration[t.does] \in Nat
      BY <2>1, <2>2, Tables, MachineAssumption
    <2> HIDE DEF t
    <2>5. TypeOK'
      BY <1>3, <1>4, <1>5, <2>2, <2>3 DEF IInv, TypeOK
    <2>6. Generations' /\ FullCount'
      BY <1>2, <1>3, <2>2, <2>3, <2>4 DEF IInv, Generations, FullCount
    <2>7. NeverStranded'
      BY <1>3, <2>2, <2>3 DEF IInv, NeverStranded, LiveTimer
    <2> QED BY <2>5, <2>6, <2>7 DEF IInv
  <1>7. CASE ApplyPodHot(h) \/ ApplyPodGPU(h)
    <2>1. timers' = timers
      BY <1>7 DEF ApplyPodHot, ApplyPodGPU
    <2>2. \/ hooks' = hooks \ {h} /\ h.new \notin {"activating", "releasing"}
          \/ \E k \in Hook : /\ hooks' = (hooks \ {h}) \cup {k}
                             /\ k.gen = h.gen /\ k.new = h.new
                             /\ k.at = "arm" => h.new \in {"activating", "releasing"}
      <3> DEFINE k(at) == [h EXCEPT !.at = at]
      <3>1. \A at \in {"podGPU", "arm"} :
              k(at) \in Hook /\ k(at).gen = h.gen /\ k(at).new = h.new /\ k(at).at = at
        BY <1>2 DEF Hook
      <3>2. \/ hooks' = hooks \ {h} /\ h.new \notin {"activating", "releasing"}
            \/ hooks' = (hooks \ {h}) \cup {k("podGPU")}
            \/ hooks' = (hooks \ {h}) \cup {k("arm")} /\ h.new \in {"activating", "releasing"}
        BY <1>7, Tables DEF ApplyPodHot, ApplyPodGPU
      <3> HIDE DEF k
      <3> QED BY <3>1, <3>2
    <2>3. TypeOK'
      BY <1>3, <1>4, <1>5, <2>1, <2>2 DEF IInv, TypeOK
    <2>4. Generations' /\ FullCount'
      BY <1>2, <1>3, <2>1, <2>2 DEF IInv, Generations, FullCount
    <2>5. NeverStranded'
      BY <1>3, <2>1, <2>2, Tables DEF IInv, NeverStranded, LiveTimer
    <2> QED BY <2>3, <2>4, <2>5 DEF IInv
  <1> QED BY <1>1, <1>6, <1>7

\* While time passes, what a timer loses the age of its generation gains.
LEMMA TickIInv ==
  ASSUME IInv, Tick
  PROVE  IInv'
  <1> DEFINE T(t) == [t EXCEPT !.left = IF @ = 0 THEN 0 ELSE @ - 1]
  <1>1. timers' = {T(t) : t \in timers} /\ UNCHANGED <<machine, gen, hooks, podHot, podGPU>>
    BY DEF Tick
  <1>2. \A t \in timers : /\ t \in Timer /\ T(t) \in Timer
                          /\ T(t).gen = t.gen /\ T(t).does = t.does
                          /\ T(t).left = IF t.left = 0 THEN 0 ELSE t.left - 1
    BY DEF IInv, TypeOK, Timer
  <1> HIDE DEF T
  <1>3. age \in Nat /\ age' \in Nat /\ (age' = age + 1 \/ (age' = age /\ age >= Warmup /\ age >= Teardown))
    BY MachineAssumption DEF Tick, IInv, TypeOK
  <1>4. TypeOK'
    BY <1>1, <1>2, <1>3 DEF IInv, TypeOK
  <1>5. Generations'
    BY <1>1, <1>2 DEF IInv, Generations
  <1>6. ASSUME NEW t \in timers, t.gen = gen
        PROVE  T(t).left + age' >= Duration[t.does]
    <2>1. t.left + age >= Duration[t.does] /\ t.left \in Nat
      BY <1>6 DEF IInv, TypeOK, FullCount, Timer
    <2>2. Duration[t.does] \in {Warmup, Teardown} /\ Warmup \in Nat /\ Teardown \in Nat
      BY <1>2, Tables, MachineAssumption DEF Timer
    <2> QED BY <1>2, <1>3, <2>1, <2>2
  <1>7. FullCount'
    BY <1>1, <1>2, <1>6 DEF FullCount
  <1>8. NeverStranded'
    BY <1>1, <1>2 DEF IInv, NeverStranded, LiveTimer
  <1> QED BY <1>4, <1>5, <1>7, <1>8 DEF IInv

\* The invariant is inductive.
LEMMA NextIInv == IInv /\ [Next]_vars => IInv'
  <1> SUFFICES ASSUME IInv, [Next]_vars PROVE IInv'
    OBVIOUS
  <1>1. CASE UNCHANGED vars
    BY <1>1 DEF vars, IInv, TypeOK, Generations, FullCount, NeverStranded, LiveTimer
  <1> QED BY <1>1, ActivateIInv, ReleaseIInv, RunTimerIInv, RunHookIInv, TickIInv DEF Next

\* The inductive invariant holds throughout.
LEMMA IInvHolds == Spec => []IInv
  BY InitIInv, NextIInv, PTL DEF Spec

\* The machine has its shape in every state: it is committed to a lease name
\* exactly while it is not warm.
THEOREM TypeCorrect == Spec => []TypeOK
  <1>1. IInv => TypeOK
    BY DEF IInv
  <1> QED BY <1>1, IInvHolds, PTL

\* A machine that warms up or tears down always has a live timer.
THEOREM NeverStrandedHolds == Spec => []NeverStranded
  <1>1. IInv => NeverStranded
    BY DEF IInv
  <1> QED BY <1>1, IInvHolds, PTL

\* A transition of the machine out of a transient state by completion is made
\* by a timer that has run down, of the current generation.
LEMMA CompletionStep ==
  ASSUME IInv, Next,
         \/ machine.state = "activating" /\ machine'.state = "hot"
         \/ machine.state = "releasing" /\ machine'.state = "warm"
  PROVE  age >= Duration[TimerFor[machine.state]]
  <1>1. ASSUME NEW l \in Leases, Activate(l) PROVE FALSE
    BY <1>1 DEF Activate
  <1>2. CASE Release
    <2>1. machine.state = "activating" /\ machine' = WarmMachine
      BY <1>2 DEF Release, Transition, Released
    <2> QED BY <2>1 DEF WarmMachine
  <1>3. CASE RunHook \/ Tick
    BY <1>3 DEF RunHook, Tick, ApplyPodHot, ApplyPodGPU, Arm
  <1>4. CASE RunTimer
    <2>1. PICK t \in timers : completeWarmup(t) \/ completeTeardown(t)
      BY <1>4 DEF RunTimer
    <2>2. t.left = 0 /\ t.gen = gen /\ t.does = TimerFor[machine.state]
      BY <2>1, Tables DEF completeWarmup, completeTeardown, Current
    <2>3. t.left + age >= Duration[t.does] /\ age \in Nat
      BY <2>2 DEF IInv, FullCount, TypeOK
    <2> QED BY <2>2, <2>3
  <1> QED BY <1>1, <1>2, <1>3, <1>4 DEF Next

\* No warmup is cut short, whatever timers of cancelled warmups are still armed.
THEOREM FullWarmupHolds == Spec => FullWarmup
  <1>1. IInv /\ [Next]_vars
          => [machine.state = "activating" /\ machine'.state = "hot" => age >= Warmup]_vars
    BY CompletionStep, Tables DEF vars
  <1> QED BY <1>1, IInvHolds, PTL DEF Spec, FullWarmup

\* No teardown is cut short.
THEOREM FullTeardownHolds == Spec => FullTeardown
  <1>1. IInv /\ [Next]_vars
          => [machine.state = "releasing" /\ machine'.state = "warm" => age >= Teardown]_vars
    BY CompletionStep, Tables DEF vars
  <1> QED BY <1>1, IInvHolds, PTL DEF Spec, FullTeardown

\* The safety part of ImplementsLifecycle: through locks, generations, late
\* timers and hooks, the machine only ever takes steps of the atomic lifecycle.
THEOREM LifecycleSafety == Spec => Lifecycle!Init /\ [][Lifecycle!Next]_machine
  <1>1. Init => Lifecycle!Init
    BY DEF Init, Lifecycle!Init, WarmMachine, Lifecycle!WarmMachine
  <1>2. ASSUME Next PROVE Lifecycle!Next \/ machine' = machine
    <2>1. ASSUME NEW l \in Leases, Activate(l) PROVE Lifecycle!Next
      BY <2>1 DEF Activate, Transition, Lifecycle!Next, Lifecycle!Activate,
                  Activated, Lifecycle!Activated
    <2>2. CASE Release
      BY <2>2 DEF Release, Transition, Lifecycle!Next, Lifecycle!Release,
                  Released, Lifecycle!Released, WarmMachine, Lifecycle!WarmMachine
    <2>3. CASE RunTimer
      BY <2>3 DEF RunTimer, completeWarmup, completeTeardown, Current, Transition,
                  Lifecycle!Next, Lifecycle!WarmupDone, Lifecycle!TeardownDone,
                  WarmedUp, Lifecycle!WarmedUp, TornDown, Lifecycle!TornDown,
                  WarmMachine, Lifecycle!WarmMachine
    <2>4. CASE RunHook \/ Tick
      BY <2>4 DEF RunHook, Tick, ApplyPodHot, ApplyPodGPU, Arm
    <2> QED BY <1>2, <2>1, <2>2, <2>3, <2>4 DEF Next
  <1>3. [Next]_vars => [Lifecycle!Next]_machine
    BY <1>2 DEF vars
  <1> QED BY <1>1, <1>3, PTL DEF Spec
-----------------------------------------------------------------------------
(* The server *)

\* A request that is still in service while the pod tears down has no more
\* ticks left than the teardown has been short of InferLatency.
InferCount ==
  infer # NoInfer /\ machine.state = "releasing" => age + infer.left <= InferLatency

ServerInv == IInv /\ infer \in Infer /\ InferUnderLease /\ InferCount

\* A request in service is under a lease name, so it is told from none.
LEMMA InferTypes ==
  ASSUME infer \in Infer, infer # NoInfer
  PROVE  infer \in [lease : Leases, left : 0 .. InferLatency] /\ infer.left \in Nat
  BY ServerAssumption DEF Infer

\* What happens to the machine while a request is in service: it is released,
\* or keeps its state and its age, since a teardown cannot complete yet.
LEMMA MachineInService ==
  ASSUME ServerInv, infer # NoInfer,
         (\E l \in Leases : Activate(l)) \/ Release \/ RunTimer \/ RunHook
  PROVE  \/ machine' = machine /\ age' = age
         \/ machine.state = "hot" /\ machine' = [machine EXCEPT !.state = "releasing"] /\ age' = 0
  <1>1. machine.state \in {"hot", "releasing"}
    BY DEF ServerInv, InferUnderLease
  <1>2. CASE \E l \in Leases : Activate(l)
    BY <1>1, <1>2 DEF Activate
  <1>3. CASE Release
    BY <1>1, <1>3 DEF Release, Transition, Released
  <1>4. CASE RunHook
    BY <1>4 DEF RunHook, ApplyPodHot, ApplyPodGPU, Arm
  <1>5. CASE RunTimer
    <2>1. PICK t \in timers : completeWarmup(t) \/ completeTeardown(t)
      BY <1>5 DEF RunTimer
    <2>2. age' = age
      BY <2>1 DEF completeWarmup, completeTeardown
    <2>3. ~Current(t, "activating")
      BY <1>1 DEF Current
    <2>4. ASSUME completeTeardown(t), Current(t, "releasing") PROVE FALSE
      <3>1. t.left = 0 /\ t.gen = gen /\ t.does = "completeTeardown" /\ machine.state = "releasing"
        BY <2>4 DEF completeTeardown, Current
      <3>2. age >= Teardown
        BY <3>1, Tables, MachineAssumption DEF ServerInv, IInv, FullCount, TypeOK
      <3>3. age + infer.left <= InferLatency /\ infer.left \in Nat /\ age \in Nat
        BY <3>1, InferTypes DEF ServerInv, InferCount, IInv, TypeOK
      <3> QED BY <3>2, <3>3, ServerAssumption, MachineAssumption
    <2>5. machine' = machine
      BY <2>1, <2>3, <2>4 DEF completeWarmup, completeTeardown
    <2> QED BY <2>2, <2>5
  <1> QED BY <1>2, <1>3, <1>4, <1>5

\* The server's invariant is inductive.
LEMMA ServerNextInv == ServerInv /\ [ServerNext]_serverVars => ServerInv'
  <1> SUFFICES ASSUME ServerInv, [ServerNext]_serverVars PROVE ServerInv'
    OBVIOUS
  <1>1. IInv'
    <2>1. [Next]_vars
      BY DEF ServerNext, ServerTick, handleInfer, inferReturns, serverVars, Next
    <2> QED BY <2>1, NextIInv DEF ServerInv
  <1>2. CASE handleInfer
    <2>1. machine.state = "hot" /\ machine.lease \in Leases /\ machine' = machine
      BY <1>2 DEF handleInfer, vars, ServerInv, IInv, TypeOK, Machine, WarmMachine
    <2>2. PICK d \in 1 .. InferLatency : infer' = [lease |-> machine.lease, left |-> d]
      BY <1>2 DEF handleInfer
    <2>3. infer' \in Infer /\ infer'.lease = machine.lease
      BY <2>1, <2>2, ServerAssumption DEF Infer
    <2> QED BY <1>1, <2>1, <2>3 DEF ServerInv, InferUnderLease, InferCount
  <1>3. CASE inferReturns
    BY <1>1, <1>3 DEF inferReturns, ServerInv, Infer, InferUnderLease, InferCount
  <1>4. CASE ServerTick
    <2>1. machine' = machine /\ age \in Nat /\ age' \in Nat /\ age' <= age + 1
      BY <1>4, MachineAssumption DEF ServerTick, Tick, ServerInv, IInv, TypeOK
    <2>2. CASE infer = NoInfer
      BY <1>1, <1>4, <2>1, <2>2 DEF ServerTick, ServerInv, InferUnderLease, InferCount
    <2>3. CASE infer # NoInfer
      <3>1. infer \in [lease : Leases, left : 0 .. InferLatency] /\ infer.left > 0
        BY <1>4, <2>3, InferTypes DEF ServerTick, ServerInv
      <3>2. infer' = [infer EXCEPT !.left = infer.left - 1]
        BY <1>4, <2>3 DEF ServerTick
      <3>3. infer' \in Infer /\ infer'.lease = infer.lease /\ infer'.left = infer.left - 1
        BY <3>1, <3>2, ServerAssumption DEF Infer
      <3>4. InferUnderLease'
        BY <2>1, <2>3, <3>3 DEF ServerInv, InferUnderLease
      <3>5. InferCount'
        BY <2>1, <2>3, <3>1, <3>3, ServerAssumption DEF ServerInv, InferCount
      <3> QED BY <1>1, <3>3, <3>4, <3>5 DEF ServerInv
    <2> QED BY <2>2, <2>3
  <1>5. CASE UNCHANGED serverVars
    BY <1>1, <1>5 DEF serverVars, vars, ServerInv, InferUnderLease, InferCount
  <1>6. CASE /\ (\E l \in Leases : Activate(l)) \/ Release \/ RunTimer \/ RunHook
             /\ UNCHANGED infer
    <2>1. CASE infer = NoInfer
      BY <1>1, <1>6, <2>1 DEF ServerInv, InferUnderLease, InferCount
    <2>2. CASE infer # NoInfer
      <3>1. infer.left \in 0 .. InferLatency
        BY <2>2, InferTypes DEF ServerInv
      <3>2. \/ machine' = machine /\ age' = age
            \/ machine.state = "hot" /\ machine' = [machine EXCEPT !.state = "releasing"] /\ age' = 0
        BY <1>6, <2>2, MachineInService
      <3>3. machine'.state \in {"hot", "releasing"} /\ machine'.lease = machine.lease
        BY <2>2, <3>2 DEF ServerInv, IInv, TypeOK, Machine, WarmMachine, InferUnderLease
      <3>4. InferCount'
        BY <1>6, <2>2, <3>1, <3>2, ServerAssumption DEF ServerInv, InferCount
      <3> QED BY <1>1, <1>6, <2>2, <3>3, <3>4 DEF ServerInv, InferUnderLease
    <2> QED BY <2>1, <2>2
  <1> QED BY <1>2, <1>3, <1>4, <1>5, <1>6 DEF ServerNext

\* Whatever the durations, as long as an inference is shorter than a teardown,
\* an accepted one never outlives the lease it was accepted under.
THEOREM InferUnderLeaseHolds == ServerSpec => []InferUnderLease
  <1>1. ServerInit => ServerInv
    BY InitIInv DEF ServerInit, ServerInv, Infer, InferUnderLease, InferCount
  <1>2. ServerInv => InferUnderLease
    BY DEF ServerInv
  <1> QED BY <1>1, <1>2, ServerNextInv, PTL DEF ServerSpec
=============================================================================
