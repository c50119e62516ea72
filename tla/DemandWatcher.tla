--------------------------- MODULE DemandWatcher ---------------------------
(***************************************************************************)
(* Demand injection (internal/workload/demand.go): every pod of the        *)
(* Deployment watches one ConfigMap and republishes the Deployment's       *)
(* demand as a gauge of its own.  A watch delivers what the ConfigMap holds*)
(* at that time, so edits in quick succession may be delivered as one.     *)
(***************************************************************************)
EXTENDS Naturals

CONSTANTS
  Pods,         \* names of the Deployment's pods
  Demands,      \* demands an operator may write, in requests per second
  MaxEdits      \* bound: how often the ConfigMap is written or deleted

VARIABLES
  cm,           \* the ConfigMap, as the Deployment's key shows it
  edits,        \* writes of the ConfigMap so far
  watcher       \* the DemandWatcher in each pod, with the gauge it publishes

NoConfigMap == [is |-> "absent", rps |-> 0]

Number(d) == [is |-> "number", rps |-> d]

\* Unusable: the Deployment's key is missing or its value is not a number.
ConfigMap == {Number(d) : d \in Demands}
             \cup {NoConfigMap, [is |-> "unusable", rps |-> 0]}

\* seen: the informer's store.  value: DemandWatcher.value.  gauge: demand_rps.
Watcher == [seen : ConfigMap, value : Nat, gauge : Nat]

\* NewDemandWatcher and NewMetrics: a process knows nothing and reports 0.
NewDemandWatcher == [seen |-> NoConfigMap, value |-> 0, gauge |-> 0]

Edit ==
  /\ edits < MaxEdits
  /\ edits' = edits + 1
  /\ \E c \in ConfigMap \ {cm} : cm' = c
  /\ UNCHANGED watcher

\* Mutant: without a usable value the demand is published as 0.
applyConfigMapZero(w, c) ==
  CASE c.is = "absent" -> [w EXCEPT !.seen = c]
    [] c.is = "number" -> [seen |-> c, value |-> c.rps, gauge |-> c.rps]
    [] OTHER           -> [w EXCEPT !.seen = c, !.gauge = 0]

\* The informer's handlers.  A deletion is only logged.  A number becomes the
\* value and is published; a missing key or a malformed number republishes the
\* last value.  Only the informer's goroutine writes value and gauge, one after
\* the other; a scrape in between reads the gauge as before the delivery.
applyConfigMap(w, c) ==
  CASE c.is = "absent" -> [w EXCEPT !.seen = c]
    [] c.is = "number" -> [seen |-> c, value |-> c.rps, gauge |-> c.rps]
    [] OTHER           -> [w EXCEPT !.seen = c, !.gauge = w.value]

\* The watch of pod p delivers the ConfigMap (or its deletion).
Deliver(p) ==
  /\ watcher[p].seen # cm
  /\ watcher' = [watcher EXCEPT ![p] = applyConfigMap(@, cm)]
  /\ UNCHANGED <<cm, edits>>
=============================================================================
