---------------------------- MODULE MCController -----------------------------
(***************************************************************************)
(* Controller for TLC: a gated canary of one rung over two replicas.       *)
(***************************************************************************)
EXTENDS Controller, TLC

CONSTANTS r1, r2

GatedPlan ==
  [isCanary |-> TRUE, weights |-> <<50>>, interval |-> 1, initialDelay |-> 0,
   window |-> 0, failureThreshold |-> 2, consecutiveErrorLimit |-> 2,
   inconclusiveLimit |-> 2, onInconclusive |-> "Rollback", requireApproval |-> TRUE,
   progressDeadline |-> 0, autoRollback |-> TRUE]

Symmetry == Permutations(Revisions)

PassOrFail == {{"Pass"}, {"Fail"}}
=============================================================================
