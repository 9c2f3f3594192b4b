----------------------------- MODULE MCEvidence ------------------------------
(***************************************************************************)
(* What a canary is judged by: the analysis round and the traffic share    *)
(* that is shown beside it, with what their constants have to be.          *)
(***************************************************************************)
EXTENDS MCWeights, FiniteSets

CONSTANTS None, NaN, Inf,
          MinRate, MinUsage, Floor, MaxRate,        \* Analysis, Exposure
          Delays, Intervals, Windows, MaxEdits      \* Exposure

(* Durations are whole ticks, and None is not one of them.                 *)
ASSUME ShareAssumption ==
  /\ None \notin Nat
  /\ Delays \subseteq Nat /\ Intervals \subseteq Nat /\ Windows \subseteq Nat
  /\ IsFiniteSet(Delays) /\ IsFiniteSet(Windows)

(* None and the values that are not numbers are told from the numbers; the *)
(* rates are so far below 1 / clampFloor (1e-9 in the code) that a share   *)
(* which is not zero is above the floor of a ratio.                        *)
ASSUME RoundAssumption ==
  /\ \A x \in {None, NaN, Inf} : x \notin Nat /\ x \notin [n : Int, d : Int]
  /\ None \notin {NaN, Inf}
  /\ MinRate \in Nat /\ MinUsage \in Nat /\ MaxRate \in Nat /\ Floor \in Nat
  /\ 2 * MaxRate < Floor /\ 2 < Floor

VARIABLES metrics, floor, world, round, began,
          plan, trial, shown, series, due, edits

Plans == [delay : Delays, interval : Intervals, window : Windows]

R == INSTANCE Analysis
X == INSTANCE Exposure

(* A metric both sides have recorded is decided by what was recorded.      *)
EvidenceDecides == R!EvidenceDecides

(* No check passes or fails on silence or on an outage.                    *)
SilenceIsNoEvidence == R!SilenceIsNoEvidence

(* A share that is shown was measured over this trial, and not long ago.   *)
ShownIsOfThisTrial == X!ShownIsOfThisTrial
=============================================================================
