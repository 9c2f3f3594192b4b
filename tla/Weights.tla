------------------------------- MODULE Weights -------------------------------
(***************************************************************************)
(* How a canary's traffic share becomes replica counts:                    *)
(* internal/canary/weights.go and the ladder lookup of state.go.           *)
(*                                                                         *)
(* Totals and weights are int32 in the code and the product is taken in    *)
(* int64, so no intermediate value wraps; naturals model them exactly (the *)
(* API admits no negative replica count or weight).                        *)
(***************************************************************************)
EXTENDS Integers, Sequences

(* A mutant: the share rounded down instead of up.                         *)
CanaryShareFloor(total, weight) ==
  LET down == (total * weight) \div 100
      c    == IF down < 1 THEN 1 ELSE down
  IN  IF c >= total THEN total - 1 ELSE c

(* A mutant: the clamp bites as soon as the canary has the majority.       *)
CanaryShareMajority(total, weight) ==
  LET up == (total * weight + 99) \div 100
      c  == IF up < 1 THEN 1 ELSE up
  IN  IF 2 * c > total THEN total - 1 ELSE c

(* The canary's share of `total`, rounded up, then kept inside             *)
(* 1 .. total-1: at a total of one the primary keeps the only pod.         *)
CanaryShare(total, weight) ==
  LET up == (total * weight + 99) \div 100
      c  == IF up < 1 THEN 1 ELSE up
  IN  IF c >= total THEN total - 1 ELSE c

(* A mutant: the primary takes the rounding as well, so a pod is lost or   *)
(* invented whenever the share is not a whole number of pods.              *)
SplitBothRounded(total, weight) ==
  LET c == IF total = 0 \/ weight = 0 THEN 0
           ELSE IF weight >= 100 THEN total
           ELSE CanaryShare(total, weight)
  IN  [primary |-> (total * (100 - weight) + 99) \div 100, canary |-> c]

Split(total, weight) ==
  LET c == IF total = 0 \/ weight = 0 THEN 0
           ELSE IF weight >= 100 THEN total
           ELSE CanaryShare(total, weight)
  IN  [primary |-> total - c, canary |-> c]

(* The configured share, rounded to the nearest percent.                   *)
RealizedWeight(primary, canary) ==
  LET total == primary + canary
  IN  IF total = 0 THEN 0 ELSE (canary * 100 + total \div 2) \div total

IsQuantized(desired, realized) ==
  desired - realized > 1 \/ realized - desired > 1

(* weightAt: a rung past the end of the ladder is its last rung.  Steps    *)
(* count from zero; the ladder is a sequence, so rung i is weights[i + 1]. *)
WeightAt(weights, step) ==
  IF weights = << >> THEN 0
  ELSE weights[IF step >= Len(weights) THEN Len(weights) ELSE step + 1]
=============================================================================
