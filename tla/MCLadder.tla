------------------------------ MODULE MCLadder -------------------------------
(***************************************************************************)
(* The ladder under every sequence of edits to the canary spec.  Admission *)
(* rejects weights outside 1..100 and a spec with both forms, but the code *)
(* is written to survive specs that slipped through, so the edits here     *)
(* include zero, out-of-range and repeated weights.                        *)
(***************************************************************************)
EXTENDS Ladder

CONSTANTS ListedWeights,  \* the weights an edit may append to stepWeights
          ScalarWeights,  \* the weights stepWeight and maxWeight may take
          MaxListed       \* bound: the length of stepWeights

VARIABLE spec

Init == spec = [stepWeights |-> << >>, stepWeight |-> Unset, maxWeight |-> Unset]

ListRung(w) ==
  /\ Len(spec.stepWeights) < MaxListed
  /\ spec' = [spec EXCEPT !.stepWeights = Append(@, w)]

ClearList ==
  /\ spec.stepWeights # << >>
  /\ spec' = [spec EXCEPT !.stepWeights = << >>]

SetStep(w) == spec' = [spec EXCEPT !.stepWeight = w]

SetMax(w) == spec' = [spec EXCEPT !.maxWeight = w]

Next ==
  \/ \E w \in ListedWeights : ListRung(w)
  \/ ClearList
  \/ \E w \in ScalarWeights \cup {Unset} : SetStep(w) \/ SetMax(w)

Spec == Init /\ [][Next]_spec

(* The weights of stepWeights that exceed everything admissible before     *)
(* them: a definition of the explicit ladder without a loop.               *)
RunningMaxima ==
  LET s == spec.stepWeights
  IN  { s[i] : i \in { k \in DOMAIN s :
          s[k] \in 1..100 /\ \A j \in 1..(k-1) : s[j] <= 100 => s[j] < s[k] } }

(* The state machine indexes the ladder without checking it: whatever the  *)
(* spec holds, StepLadder yields at least one rung, within 1..100 and       *)
(* strictly increasing.  The explicit ladder loses nothing it could keep:  *)
(* its rungs are exactly the running maxima of stepWeights; the uniform    *)
(* one is used only when there are none, and then ends at maxWeight with   *)
(* no gap wider than stepWeight (rollout_types.go: "The ladder always ENDS *)
(* at maxWeight").                                                         *)
LadderIsComplete ==
  LET l    == StepLadder(spec)
      step == Resolve(spec.stepWeight, DefaultStep)
  IN  /\ l # << >>
      /\ \A i \in DOMAIN l : l[i] \in 1..100
      /\ \A i, j \in DOMAIN l : i < j => l[i] < l[j]
      /\ IF RunningMaxima # {} THEN ToSet(l) = RunningMaxima
         ELSE /\ Last(l) = Resolve(spec.maxWeight, DefaultMax)
              /\ Head(l) <= step
              /\ \A i \in 2..Len(l) : l[i] - l[i-1] <= step
=============================================================================
