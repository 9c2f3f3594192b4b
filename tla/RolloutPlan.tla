----------------------------- MODULE RolloutPlan ------------------------------
(***************************************************************************)
(* internal/controller/canary.go: how one pass of the controller feeds the *)
(* canary state machine and turns its decision into what should run.       *)
(* Pure operators again; Rollout drives them.                              *)
(***************************************************************************)
EXTENDS Canary

CONSTANTS
  Revisions,         \* the revisions a spec may describe
  UIDs, Generations  \* identifiers a canary Deployment may be given

ASSUME NameAssumption ==
  /\ NoRevision \notin Revisions /\ NoUID \notin UIDs
  /\ Generations \subseteq Nat /\ 1 \in Generations

firstNonEmpty(a, b) == IF a # NoRevision THEN a ELSE b

soonest(a, b) == IF a = 0 THEN b ELSE IF b = 0 \/ a <= b THEN a ELSE b

(* A mutant: a canary awaiting readiness is stored as such.                *)
PhaseFromWaiting(action) ==
  CASE action \in {"Start", "Advance"} -> "Waiting"
    [] action = "Wait"     -> "Progressing"
    [] action = "Pause"    -> "Paused"
    [] action = "Promote"  -> "Promoting"
    [] action = "Rollback" -> "RollingBack"
    [] action = "None"     -> "Idle"

(* What survives a pass.  The machine's own phase is not stored: status    *)
(* keeps a phase derived from the action (derivePhase), and the next pass  *)
(* maps it back (canaryPhaseFrom), so a Waiting canary is read back as     *)
(* Progressing.  A settled canary with nothing to remember is a nil        *)
(* status.canary, which reads back as the zero State.                      *)
PhaseFrom(action) ==
  CASE action \in {"Start", "Advance", "Wait"} -> "Progressing"
    [] action = "Pause"    -> "Paused"
    [] action = "Promote"  -> "Promoting"
    [] action = "Rollback" -> "RollingBack"
    [] action = "None"     -> "Idle"

Persisted(out) == [out.state EXCEPT !.phase = PhaseFrom(out.action)]

(* planCanary up to its decision.  A round runs only when one is due, and  *)
(* only once the candidate's metrics are known to be scoped to this        *)
(* resource; `scoped` is the answer to that query and `checks` the         *)
(* verdicts the metrics return if the round runs.                          *)
RoundDue(in) ==
  /\ ~in.aborted
  /\ in.state.revision = in.target
  /\ DueForAnalysis(in.plan, Observe(in).state)

ScopeKnown(in, scoped) == Observe(in).state.scopeReady \/ scoped

Decide(in, scoped, checks) ==
  LET seen == Observe(in)
  IN  IF RoundDue(in) /\ ScopeKnown(in, scoped)
      THEN NextPosition([seen EXCEPT !.state.scopeReady = TRUE,
                                     !.round = Aggregate(checks)])
      ELSE IF RoundDue(in)
      THEN LET out == NextPosition(seen)
           IN  [out EXCEPT !.reason = "MetricsScopePending",
                           !.requeue = soonest(@, in.plan.interval)]
      ELSE NextPosition(seen)

(* planCanary's conclusion: which revision the primary runs, and whether a *)
(* canary runs beside it.                                                  *)
planCanary(in, out) ==
  LET active == out.action \in {"Start", "Advance", "Wait", "Pause"}
  IN  [out |-> out,
       primaryRevision |->
         CASE out.action = "Promote"  -> out.state.revision
           [] out.action = "Rollback" ->
                firstNonEmpty(out.state.stable, firstNonEmpty(in.stable, in.target))
           [] out.action = "None"     -> in.target
           [] active                  -> firstNonEmpty(in.stable, in.target),
       canaryRevision |-> IF active THEN out.state.revision ELSE NoRevision,
       primaryReplicas |-> out.primary, canaryReplicas |-> out.canary,
       active |-> active /\ out.state.revision # NoRevision,
       rolledBack |-> FALSE]

(* A mutant: the rejection is not consulted again after the rollback.      *)
holdNothing(in, res) == res

(* holdRejectedRevision: the target was rejected, so the primary stays on  *)
(* the last good revision.                                                 *)
holdRejectedRevision(in, res) ==
  LET rejected == firstNonEmpty(res.out.state.failed, in.state.failed)
  IN  IF \/ res.active \/ res.rolledBack
         \/ rejected = NoRevision \/ rejected # in.target
         \/ in.stable \in {NoRevision, in.target}
      THEN res
      ELSE [res EXCEPT !.primaryRevision = in.stable,
                       !.primaryReplicas = in.total,
                       !.canaryRevision = NoRevision, !.canaryReplicas = 0,
                       !.rolledBack = TRUE, !.out.state.failed = rejected]

(* A mutant: the stalled revision is reverted but not rejected.            *)
guardWithoutMemory(in, res, autoRollback, stalled) ==
  IF \/ res.active \/ res.rolledBack \/ ~autoRollback \/ ~stalled
     \/ in.stable \in {NoRevision, res.primaryRevision}
  THEN res
  ELSE [res EXCEPT !.primaryRevision = in.stable,
                   !.canaryRevision = NoRevision, !.canaryReplicas = 0,
                   !.rolledBack = TRUE]

(* guardAgainstStall: a primary rollout that blew its deadline reverts.    *)
guardAgainstStall(in, res, autoRollback, stalled) ==
  IF \/ res.active \/ res.rolledBack \/ ~autoRollback \/ ~stalled
     \/ in.stable \in {NoRevision, res.primaryRevision}
  THEN res
  ELSE [res EXCEPT !.primaryRevision = in.stable,
                   !.canaryRevision = NoRevision, !.canaryReplicas = 0,
                   !.rolledBack = TRUE,
                   !.out.state.failed = res.primaryRevision]

(* planRollout.  A RollingUpdate has no canary state of its own: its       *)
(* Output is the zero value, so nothing but a rejection is remembered.     *)
planRollout(in, scoped, checks, stalled) ==
  LET rolling == Alone(in, EmptyState, "None", "CanaryNotRunning", 0, 0)
      out     == IF in.plan.isCanary THEN Decide(in, scoped, checks) ELSE rolling
      held    == holdRejectedRevision(in, planCanary(in, out))
  IN  guardAgainstStall(in, held, in.plan.autoRollback, stalled)

-----------------------------------------------------------------------------
(* What these operators are given and return. *)

Ages          == Nat \cup {NoTime}
Revs          == Revisions \cup {NoRevision}
AnyUID        == UIDs \cup {NoUID}
AnyGeneration == Generations \cup {0}

(* What admission and the Resolved accessors of the API guarantee of a     *)
(* rollout section: above all an analysis interval that is not zero.       *)
PlanType ==
  [isCanary : BOOLEAN, weights : Seq(Nat), interval : Nat \ {0},
   initialDelay : Nat, window : Nat, failureThreshold : Nat,
   consecutiveErrorLimit : Nat, inconclusiveLimit : Nat,
   onInconclusive : {"Wait", "Rollback", "Promote"}, requireApproval : BOOLEAN,
   progressDeadline : Nat, autoRollback : BOOLEAN]

Phases == {"Idle", "Progressing", "Paused", "Promoting", "RollingBack"}

Reasons ==
  {"CanaryNotRunning", "CanaryRolledBack", "NoLastGoodRevision", "CanaryProgressing",
   "InsufficientReplicas", "CanaryPromoted", "AwaitingApproval", "CanaryChecksPassed",
   "CanaryChecksFailed", "AnalysisInconclusive", "AnalysisError", "CanaryAborted",
   "CanaryProgressDeadlineExceeded", "MetricsScopePending"}

ReadinessType == [step : Nat, weight : Nat, total : Nat, canary : Nat,
                  generation : AnyGeneration, uid : AnyUID]

DeploymentType == [uid : AnyUID, revision : Revs, generation : AnyGeneration,
                   replicas : Nat, settled : BOOLEAN]

StateType ==
  [phase : Phases, revision : Revs, stable : Revs, failed : Revs,
   scopeReady : BOOLEAN, step : Nat, availableSince : Ages,
   lastAnalysis : Ages, startedAt : Ages, readiness : ReadinessType,
   failedChecks : Nat, consecErr : Nat, consecInconcl : Nat]
=============================================================================
