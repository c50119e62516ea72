------------------------------ MODULE PoolMath ------------------------------
(***************************************************************************)
(* The arithmetic of the warm pool, free of state: the annotation parser   *)
(* (api/v1alpha1/names.go) and the promotion target (controller/pods.go).  *)
(***************************************************************************)
EXTENDS Integers

\* An annotation as the parser tells values apart: absent, not a decimal
\* integer, or an integer (which may be negative or beyond int32).
Raw == [is : {"unset", "malformed"}, n : {0}] \cup [is : {"integer"}, n : Int]

\* Mutant: a negative count is accepted.
ParseCountSigned(raw, default, max) ==
  IF raw.is = "integer" /\ raw.n <= max THEN raw.n ELSE default

\* ParseInt(v, 10, 32), accepted when it is not negative; max is MaxInt32.
ParseCount(raw, default, max) ==
  IF raw.is = "integer" /\ raw.n \in 0 .. max THEN raw.n ELSE default

\* Mutant: the floor of hot pods is forgotten.
targetHotUnfloored(ready, desiredWarm, minHot) ==
  IF ready - desiredWarm < 0 THEN 0 ELSE ready - desiredWarm

\* ready - desiredWarm, at least minHot, at most ready.  Computed in int, which
\* holds any difference of two int32.
targetHot(ready, desiredWarm, minHot) ==
  LET t == IF ready - desiredWarm < minHot THEN minHot ELSE ready - desiredWarm
  IN IF t > ready THEN ready ELSE t
=============================================================================
