------------------------------ MODULE Sharing ------------------------------
(***************************************************************************)
(* What the contention manager gives an entry when the node cannot serve   *)
(* everyone (pkg/pod-autoscaler/pkg/contention-manager/logic.go).  The     *)
(* share is computed with two float64 operations, so an integer model      *)
(* bounds it instead of computing it: the exact share and the computed one *)
(* differ by at most one part in Precision.  Each operation errs by at     *)
(* most one part in 2^53, so every Precision up to 2^51 covers the code,   *)
(* as long as the amounts themselves are exact (below 2^53).               *)
(***************************************************************************)
EXTENDS Allotment

CONSTANT Precision

ASSUME PrecisionAssumption == Precision \in Nat \ {0}

(* Variant: shares are rounded up. *)
RoundedUp(desired, totalDesired, totalAvailable) ==
  {(desired * totalAvailable + totalDesired - 1) \div totalDesired}

(***************************************************************************)
(* int64(float64(d) / float64(t) * float64(a)): the integer part of some x *)
(* within one part in Precision of d * a / t.  The integer quotient, the   *)
(* next integer when the exact share lies close below it, or the previous  *)
(* one when it lies close above the quotient.  The amounts of a real node  *)
(* meet all three: its memory, in milli-bytes, makes d * a / t exceed      *)
(* what the fraction bits can tell from an integer.                        *)
(***************************************************************************)
Proportional(desired, totalDesired, totalAvailable) ==
  LET product  == desired * totalAvailable
      quotient == product \div totalDesired
  IN  {share \in (quotient - 1)..(quotient + 1) :
         /\ share >= 0
         /\ share * totalDesired * Precision <= product * (Precision + 1)
         /\ product * (Precision - 1) < (share + 1) * totalDesired * Precision}

(* Variant: a total that just fits is cut as well. *)
GrantAtLimit(capped, totalDesired, totalAvailable) ==
  IF totalDesired >= totalAvailable
  THEN Proportional(capped, totalDesired, totalAvailable)
  ELSE {capped}

(***************************************************************************)
(* What Solve may give an entry: its capped amount when the node can serve *)
(* the total, a proportional share otherwise.                              *)
(***************************************************************************)
Grant(capped, totalDesired, totalAvailable) ==
  IF totalDesired > totalAvailable
  THEN Proportional(capped, totalDesired, totalAvailable)
  ELSE {capped}
=============================================================================
