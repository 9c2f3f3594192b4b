------------------------------ MODULE MCWeights ------------------------------
(***************************************************************************)
(* The split under every sequence of scale and weight changes: an operator *)
(* or the autoscaler moves the total, the state machine moves the weight.  *)
(***************************************************************************)
EXTENDS Weights

CONSTANT MaxTotal   \* bound: the largest replica count tried

ASSUME MaxTotalAssumption == MaxTotal \in Nat

VARIABLES total, weight

vars == <<total, weight>>

Init == total = 1 /\ weight = 0

Scale == total' \in 0..MaxTotal /\ UNCHANGED weight

Reweigh == weight' \in 0..100 /\ UNCHANGED total

Next == Scale \/ Reweigh

Spec == Init /\ [][Next]_vars

(* The contract written above Split (weights.go:41-50): no pod is added or *)
(* lost, a positive weight reaches at least one pod when there are two to  *)
(* divide, and below 100% the primary keeps at least one.                  *)
SplitContract ==
  LET s == Split(total, weight)
  IN  /\ s.primary + s.canary = total
      /\ s.primary >= 0 /\ s.canary >= 0
      /\ (weight > 0 /\ total > 1) => s.canary >= 1
      /\ (weight < 100 /\ total > 0) => s.primary >= 1

(* Rounding is up: the share the operator reads back (RealizedWeight) is   *)
(* below the requested one only when the primary is down to its last pod,  *)
(* and a split that hits a whole number of pods is never reported as       *)
(* quantized.                                                              *)
ExposureAtLeastRequested ==
  LET s == Split(total, weight)
      r == RealizedWeight(s.primary, s.canary)
  IN  total > 0 =>
        /\ r < weight => s.primary = 1
        /\ s.canary * 100 = total * weight => ~IsQuantized(weight, r)

(* A scale-up never removes a pod from either side and a heavier rung      *)
(* never shrinks the canary: the two owners of the replica count (the      *)
(* autoscaler and the ladder) cannot undo each other's step.               *)
NeitherSideShrinks ==
  [][ (total' >= total /\ weight' >= weight) =>
        /\ Split(total', weight').canary >= Split(total, weight).canary
        /\ (weight' = weight) =>
             Split(total', weight').primary >= Split(total, weight).primary ]_vars
=============================================================================
