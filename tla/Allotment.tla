----------------------------- MODULE Allotment -----------------------------
(***************************************************************************)
(* Integer arithmetic shared by the modules: how amounts are totalled, and *)
(* how one is bounded by the SLA.  Amounts are the milli-units that        *)
(* Quantity.MilliValue() returns.                                          *)
(***************************************************************************)
EXTENDS Integers, Sequences

Smaller(a, b) == IF a < b THEN a ELSE b
Larger(a, b)  == IF a > b THEN a ELSE b

(* The sum a loop over amounts has reached after each of them, and at its   *)
(* end: the totals of Solve and of NewContentionManager.                   *)
RunningTotal(amounts) ==
  LET total[k \in 0..Len(amounts)] == IF k = 0 THEN 0 ELSE total[k - 1] + amounts[k]
  IN  total

Total(amounts) == RunningTotal(amounts)[Len(amounts)]

(* Variant: there is no lower bound. *)
UpperBoundOnly(value, lower, upper) == IF value > upper THEN upper ELSE value

(***************************************************************************)
(* The upper bound is tested first: with lower > upper the code returns    *)
(* upper for a large value and lower for a small one.                      *)
(***************************************************************************)
ApplyBounds(value, lower, upper) ==
  IF value > upper THEN upper ELSE IF value < lower THEN lower ELSE value
=============================================================================
