------------------------------- MODULE Ladder --------------------------------
(***************************************************************************)
(* CanarySpec.StepLadder (api/v1alpha1/rollout_types.go): the weights a    *)
(* canary climbs, computed from the spec every time the controller looks.  *)
(* A pointer field that is nil is Unset.                                   *)
(***************************************************************************)
EXTENDS Integers, Sequences, SequencesExt

CONSTANT Unset

DefaultStep == 20
DefaultMax  == 50

Resolve(field, default) == IF field = Unset THEN default ELSE field

(* The explicit ladder with every entry dropped that does not exceed the   *)
(* last one kept (the first must exceed zero) or that exceeds 100.         *)
KeepIncreasing(stepWeights) ==
  FoldLeft(LAMBDA kept, w :
             IF w <= 100 /\ w > (IF kept = << >> THEN 0 ELSE Last(kept))
             THEN Append(kept, w) ELSE kept,
           << >>, stepWeights)

(* A mutant: the ladder stops at the last whole step below maxWeight.      *)
UniformShort(step, max) == [i \in 1..(max \div step) |-> i * step]

(* step, 2*step, ... below max, and then max itself.                       *)
Uniform(step, max) ==
  Append([i \in 1..((max - 1) \div step) |-> i * step], max)

StepLadder(spec) ==
  IF KeepIncreasing(spec.stepWeights) # << >>
  THEN KeepIncreasing(spec.stepWeights)
  ELSE Uniform(Resolve(spec.stepWeight, DefaultStep),
               Resolve(spec.maxWeight, DefaultMax))
=============================================================================
