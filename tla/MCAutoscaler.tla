---------------------------- MODULE MCAutoscaler ----------------------------
(* Instances of Autoscaler for TLC. *)
EXTENDS Autoscaler

Integer(n) == [is |-> "integer", n |-> n]

\* A negative count and a typo, which leave both at their defaults; a buffer
\* and a floor of two; no buffer, so that the floor of replicas counts.
SmallAnnotations ==
  {[warm |-> Integer(-3), minHot |-> [is |-> "malformed", n |-> 0]],
   [warm |-> Integer(2), minHot |-> Integer(2)],
   [warm |-> Integer(0), minHot |-> Integer(1)]}
=============================================================================
