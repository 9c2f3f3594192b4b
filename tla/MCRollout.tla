------------------------------ MODULE MCRollout -------------------------------
(***************************************************************************)
(* Instances of Rollout for TLC.  Durations are in clock ticks.            *)
(***************************************************************************)
EXTENDS Rollout

CONSTANTS r1, r2, r3

(* Two rungs; with three replicas they are one and two canary pods.        *)
BasePlan ==
  [isCanary |-> TRUE, weights |-> <<30, 60>>, interval |-> 1,
   initialDelay |-> 1, window |-> 1, failureThreshold |-> 2,
   consecutiveErrorLimit |-> 2, inconclusiveLimit |-> 2,
   onInconclusive |-> "Rollback", requireApproval |-> FALSE,
   progressDeadline |-> 4, autoRollback |-> TRUE]

Gated   == [BasePlan EXCEPT !.requireApproval = TRUE]
Patient == [Gated EXCEPT !.weights = <<50>>, !.onInconclusive = "Wait",
                         !.failureThreshold = 1]
Trusting == [BasePlan EXCEPT !.weights = <<50>>, !.onInconclusive = "Promote"]
Rolling == [BasePlan EXCEPT !.isCanary = FALSE]

BaseOnly  == {BasePlan}
AllPlans  == {Gated, Patient, Trusting, Rolling}

(* Two cases that share no state: a gated release of one revision over     *)
(* three replicas, with three interventions; and releases of three         *)
(* revisions over one or two replicas whose rollout section is edited as   *)
(* they run, with two.                                                     *)
InCase ==
  IF total = 3 THEN plan = Gated /\ target # r3 ELSE plan # Gated /\ edits <= 2
=============================================================================
