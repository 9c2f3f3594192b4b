------------------------------ MODULE Controller ------------------------------
(***************************************************************************)
(* internal/controller/modeldeployment_controller.go: one reconcile pass,  *)
(* call by call.                                                           *)
(*                                                                         *)
(* Rollout takes a pass as one step on an up-to-date picture.  Here a pass *)
(* is what the code does: it reads the ModelDeployment from the API server *)
(* and the Deployments from the informer cache, plans, writes one object   *)
(* after the other, reads the cache again and then writes status, if the   *)
(* ModelDeployment is still the one it planned from.  People, the cluster  *)
(* and the cache move between any two calls; every call may fail, and the  *)
(* manager may die, which ends the pass where it stands.                   *)
(*                                                                         *)
(* A resourceVersion is only ever compared with one read earlier in the    *)
(* same pass, so it is represented by the answer: pass.fresh.  A pass is   *)
(* assumed to take less than an analysis interval: the clock (Elapse)      *)
(* moves between passes.                                                   *)
(***************************************************************************)
EXTENDS RolloutPlan, FiniteSets

CONSTANTS
  Plan,        \* its rollout section
  Total,       \* its replica count
  Rounds,      \* the sets of check verdicts the metrics may return
  MaxEdits,    \* bound: edits and annotations by people
  MaxFaults    \* bound: failed calls, crashes, failures of the workload

ASSUME ControllerAssumption ==
  /\ Plan \in PlanType /\ Total \in Nat /\ Rounds \subseteq SUBSET Verdicts
  /\ \A a, b, c \in AnyUID : \E u \in UIDs : u \notin {a, b, c}
  /\ \A a, b, c \in AnyGeneration : \E g \in Generations : g \notin {a, b, c}

VARIABLES
  obj,      \* the ModelDeployment: spec, annotations and status
  dep,      \* the canary Deployment
  primary,  \* the primary Deployment
  seen,     \* the informer cache's copies of both
  pass,     \* the pass the worker is in
  wake, timer, \* the work queue: a queued key, a pending requeue
  edits, faults, \* interventions and faults so far
  hist      \* history, read by the properties only: the candidate a promotion
            \* was approved for; was the target rejected since it was edited

vars == <<obj, dep, primary, seen, pass, wake, timer, edits, faults, hist>>

(* The primary Deployment.  `synced`: its status is of this generation     *)
(* (observedGeneration >= generation).  `health` is what that status says. *)
NoPrimary == [revision |-> NoRevision, replicas |-> 0, synced |-> FALSE,
              health |-> "rolling"]

NoResult == planCanary([target |-> NoRevision, stable |-> NoRevision, total |-> 0],
              Alone([total |-> 0], EmptyState, "None", "CanaryNotRunning", 0, 0))

Resting == [at |-> "idle", fresh |-> FALSE, res |-> NoResult,
            md |-> [target |-> NoRevision, ann |-> {}, stable |-> NoRevision]]

(* One revision has been rolled out and is known good; the spec has just   *)
(* been edited to another.                                                 *)
Complete(r) == [revision |-> r, replicas |-> Total, synced |-> TRUE, health |-> "converged"]

Init ==
  /\ \E good, r \in Revisions :
       /\ r # good
       /\ obj = [target |-> r, valid |-> TRUE, ann |-> {}, st |-> EmptyState, stable |-> good]
       /\ primary = Complete(good)
       /\ seen = [dep |-> NoDeployment, primary |-> Complete(good)]
  /\ dep = NoDeployment /\ hist = [approvedFor |-> NoRevision, rejected |-> FALSE]
  /\ pass = Resting /\ wake = TRUE /\ timer = FALSE
  /\ edits = 0 /\ faults = 0

-----------------------------------------------------------------------------
(* The pass. *)

(* A mutant: the status of an invalid spec starts from an empty one.       *)
failForgetfully ==
  /\ obj' = [obj EXCEPT !.st = EmptyState]
  /\ pass' = Resting /\ wake' = FALSE

(* failTerminally: the condition and the phase are written to whatever the *)
(* object is by then (RetryOnConflict), and nothing is requeued.  Degraded *)
(* is a phase canaryPhaseFrom reads back as Idle.                          *)
failTerminally ==
  /\ obj' = [obj EXCEPT !.st.phase = "Idle"]
  /\ pass' = Resting /\ wake' = FALSE

(* Reconcile up to its plan: the object uncached, the Deployments cached.  *)
(* The annotations are part of the input; whether a round is due and what  *)
(* it says is planCanary's.                                                *)
InputOf(md) ==
  [plan |-> Plan, state |-> md.st, target |-> md.target, stable |-> md.stable,
   total |-> Total, dep |-> seen.dep, round |-> NoRound,
   approved |-> "promote" \in md.ann, aborted |-> "abort" \in md.ann]

(* applyChildren, the primary's Deployment.  A changed spec is a new       *)
(* generation, whose status the Deployment controller has yet to write.    *)
ApplyPrimary(res) ==
  primary' = IF primary.revision = res.primaryRevision /\ primary.replicas = res.primaryReplicas
             THEN primary
             ELSE [primary EXCEPT !.revision = res.primaryRevision,
                                  !.replicas = res.primaryReplicas, !.synced = FALSE]

FreshUID ==
  CHOOSE u \in UIDs : u \notin {dep.uid, seen.dep.uid, obj.st.readiness.uid}
FreshGeneration ==
  CHOOSE g \in Generations : g \notin {dep.generation, seen.dep.generation,
                                       obj.st.readiness.generation}

(* applyChildren, the canary's Deployment, or deleteCanaryDeployment.      *)
ApplyCanary(res) ==
  dep' = IF res.canaryRevision = NoRevision \/ res.canaryReplicas = 0 THEN NoDeployment
         ELSE IF dep.uid = NoUID
         THEN [uid |-> FreshUID, revision |-> res.canaryRevision, generation |-> 1,
               replicas |-> res.canaryReplicas, settled |-> FALSE]
         ELSE IF dep.revision = res.canaryRevision /\ dep.replicas = res.canaryReplicas
         THEN dep
         ELSE [dep EXCEPT !.revision = res.canaryRevision, !.generation = FreshGeneration,
                          !.replicas = res.canaryReplicas, !.settled = FALSE]

(* The children are written, or the pass fails after the first of them.    *)
Carry(res, in) ==
  /\ ApplyPrimary(res)
  /\ \/ /\ ApplyCanary(res)
        /\ pass' = [at |-> IF obj.ann = {} THEN "cleared" ELSE "applied", fresh |-> TRUE, res |-> res,
                    md |-> [target |-> in.target, ann |-> obj.ann, stable |-> in.stable]]
        /\ wake' = FALSE /\ UNCHANGED faults
     \/ /\ faults < MaxFaults /\ faults' = faults + 1
        /\ pass' = Resting /\ wake' = TRUE /\ UNCHANGED dep

PlanAndApply(in) ==
  \E checks \in IF Plan.isCanary /\ RoundDue(in) THEN Rounds ELSE {{}} :
    Carry(planRollout(in, TRUE, checks, seen.primary.health = "stalled"), in)

Reconcile ==
  /\ pass.at = "idle" /\ wake
  /\ \/ obj.valid /\ PlanAndApply(InputOf(obj)) /\ UNCHANGED obj
     \/ ~obj.valid /\ failTerminally /\ UNCHANGED <<dep, primary, faults>>
  /\ UNCHANGED <<seen, timer, edits, hist>>

(* A mutant: the annotations are left for the next pass.                   *)
clearNothing == pass' = [pass EXCEPT !.at = "cleared"] /\ UNCHANGED <<obj, wake>>

(* clearRolloutAnnotations, when the pass read one.  The patch touches     *)
(* both keys of the object as it is now, and the API server's answer,      *)
(* resourceVersion included, replaces md: what changed since md was read   *)
(* no longer shows.                                                        *)
clearRolloutAnnotations ==
  /\ obj' = [obj EXCEPT !.ann = {}] /\ wake' = TRUE
  /\ pass' = [pass EXCEPT !.at = "cleared", !.fresh = TRUE]

ClearAnnotations ==
  /\ pass.at = "applied" /\ clearRolloutAnnotations
  /\ UNCHANGED <<dep, primary, seen, timer, edits, faults, hist>>

(* setProgressing and computeStatus on the copies observe got: has the     *)
(* rollout completed.  A converged, synced Deployment counts its replicas, *)
(* an unsettled canary none; updatedReplicas leaves out a primary that is  *)
(* not meant to run the target.  That the counted pods run the revision    *)
(* just applied is not asked.                                              *)
Full(d) == IF d.settled THEN d.replicas ELSE 0

RolloutComplete(res, target, p, c) ==
  /\ p.revision # NoRevision /\ p.health = "converged" /\ p.synced
  /\ IF res.rolledBack /\ res.primaryRevision # target
     THEN c.uid = NoUID /\ p.replicas = Total
     ELSE /\ p.replicas + Full(c) = Total
          /\ Full(c) + (IF res.primaryRevision = target THEN p.replicas ELSE 0) = Total

canaryActive(out) == out.action \in {"Start", "Advance", "Wait"}
                     \/ (out.action = "Pause" /\ out.canary > 0)

Bank(res, md, p, c) ==
  IF RolloutComplete(res, md.target, p, c) /\ ~canaryActive(res.out)
  THEN res.primaryRevision ELSE md.stable

(* For the history: this status records that the target has just been      *)
(* turned down, by a rollback or by one of planRollout's guards.  (A trial *)
(* that an edit restarts carries an older rejection of its revision along: *)
(* that is not one.)                                                       *)
Rejects(res) == /\ res.out.state.failed = obj.target
                /\ res.rolledBack \/ res.out.action = "Rollback"

(* A mutant: the pass ends without the requeue its plan asks for.          *)
updateWithoutRequeue(res) ==
  /\ pass.at = "cleared" /\ pass' = Resting
  /\ IF pass.fresh
     THEN /\ obj' = [obj EXCEPT !.st = Persisted(res.out),
                                !.stable = Bank(res, pass.md, seen.primary, seen.dep)]
          /\ hist' = [hist EXCEPT !.rejected = @ \/ Rejects(res)]
          /\ UNCHANGED <<timer, wake>>
     ELSE wake' = TRUE /\ UNCHANGED <<obj, timer, hist>>
  /\ UNCHANGED <<dep, primary, seen, edits, faults>>

(* observe and updateStatus.  Between the uncached read and the write the  *)
(* API server's own conflict check stands, so the two are one step.  A     *)
(* stale plan writes nothing and is replanned.                             *)
updateStatus(res) ==
  /\ pass.at = "cleared" /\ pass' = Resting
  /\ IF pass.fresh
     THEN /\ obj' = [obj EXCEPT !.st = Persisted(res.out),
                                !.stable = Bank(res, pass.md, seen.primary, seen.dep)]
          /\ hist' = [hist EXCEPT !.rejected = @ \/ Rejects(res)]
          /\ timer' = (timer \/ res.out.requeue > 0)
          /\ UNCHANGED wake
     ELSE wake' = TRUE /\ UNCHANGED <<obj, timer, hist>>
  /\ UNCHANGED <<dep, primary, seen, edits, faults>>

(* A call that fails returns its error, which requeues the key; a manager  *)
(* that dies comes back with every key queued.  Either way the pass ends   *)
(* here, and what it has done stays done.                                  *)
PassEnds ==
  /\ pass.at # "idle" /\ faults < MaxFaults
  /\ pass' = Resting /\ wake' = TRUE /\ faults' = faults + 1
  /\ UNCHANGED <<obj, dep, primary, seen, timer, edits, hist>>

-----------------------------------------------------------------------------
(* Everyone else. *)

(* A write to the ModelDeployment by someone else.                         *)
Intervene ==
  /\ edits < MaxEdits /\ edits' = edits + 1 /\ wake' = TRUE
  /\ pass' = [pass EXCEPT !.fresh = FALSE]
  /\ UNCHANGED <<dep, primary, seen, timer, faults>>

EditSpec(r) ==
  /\ Intervene /\ r # obj.target
  /\ obj' = [obj EXCEPT !.target = r, !.valid = TRUE]
  /\ hist' = [hist EXCEPT !.rejected = FALSE]

BreakSpec ==
  /\ Intervene /\ obj.valid /\ obj' = [obj EXCEPT !.valid = FALSE]
  /\ UNCHANGED hist

RepairSpec ==
  /\ Intervene /\ ~obj.valid /\ obj' = [obj EXCEPT !.valid = TRUE]
  /\ UNCHANGED hist

Annotate(a) ==
  /\ Intervene /\ a \notin obj.ann
  /\ obj' = [obj EXCEPT !.ann = @ \cup {a}]
  /\ hist' = [hist EXCEPT !.approvedFor =
       IF a # "promote" THEN @
       ELSE IF obj.st.phase = "Paused" THEN obj.st.revision ELSE NoRevision]

(* The Deployment controller works on what the API server holds: it        *)
(* brings a Deployment's status up to date and completes its rollout.      *)
CanarySettles ==
  /\ dep.uid # NoUID /\ ~dep.settled
  /\ dep' = [dep EXCEPT !.settled = TRUE]
  /\ UNCHANGED <<obj, primary, seen, pass, wake, timer, edits, faults, hist>>

PrimaryMoves ==
  /\ primary.revision # NoRevision
  /\ \/ ~primary.synced /\ primary' = [primary EXCEPT !.synced = TRUE, !.health = "rolling"]
     \/ /\ primary.synced /\ primary.health # "converged"
        /\ primary' = [primary EXCEPT !.health = "converged"]
  /\ UNCHANGED <<obj, dep, seen, pass, wake, timer, edits, faults, hist>>

(* A pod of the candidate fails, or the primary's rollout exceeds its      *)
(* progress deadline.                                                      *)
WorkloadFails ==
  /\ faults < MaxFaults /\ faults' = faults + 1
  /\ \/ dep.settled /\ dep' = [dep EXCEPT !.settled = FALSE] /\ UNCHANGED primary
     \/ /\ primary.synced /\ primary.health = "rolling"
        /\ primary' = [primary EXCEPT !.health = "stalled"] /\ UNCHANGED dep
  /\ UNCHANGED <<obj, seen, pass, wake, timer, edits, hist>>

(* The informer, one ordered watch of all Deployments, delivers: the cache *)
(* is as the API server was at some moment in the past, and now is as it   *)
(* is.  The owner is queued.                                               *)
Current == [dep |-> dep, primary |-> primary]

CacheCatchesUp ==
  /\ seen # Current /\ seen' = Current /\ wake' = TRUE
  /\ UNCHANGED <<obj, dep, primary, pass, timer, edits, faults, hist>>

(* The requeue timer goes off, an analysis interval later.                 *)
Elapse ==
  /\ pass.at = "idle" /\ timer
  /\ timer' = FALSE /\ wake' = TRUE
  /\ obj' = [obj EXCEPT !.st.lastAnalysis = IF @ = NoTime THEN @ ELSE Plan.interval]
  /\ UNCHANGED <<dep, primary, seen, pass, edits, faults, hist>>

Next ==
  \/ Reconcile \/ ClearAnnotations \/ updateStatus(pass.res) \/ PassEnds
  \/ \E r \in Revisions : EditSpec(r)
  \/ BreakSpec \/ RepairSpec
  \/ \E a \in {"promote", "abort"} : Annotate(a)
  \/ CanarySettles \/ PrimaryMoves \/ WorkloadFails \/ CacheCatchesUp \/ Elapse

Spec == Init /\ [][Next]_vars

-----------------------------------------------------------------------------
(* Properties *)

(* A rejection that status has recorded is remembered and in force until   *)
(* the target is edited ("A rollback sticks until a human changes the      *)
(* spec", canary.go:145): through lost calls, crashes, stale caches and an *)
(* invalid spec in between, the candidate does not run again and the       *)
(* primary does not take its revision.                                     *)
RejectionStands ==
  hist.rejected /\ obj.stable \notin {NoRevision, obj.target} =>
    /\ obj.st.failed = obj.target
    /\ ~isActive(obj.st.phase) /\ primary.revision # obj.target

(* A pause ends in a promotion only if a person approved the candidate     *)
(* that was waiting: an approval is consumed by the pass that reads it and *)
(* is not there for the next release (clearRolloutAnnotations), although   *)
(* the patch that clears it and the write of status are two calls.  The    *)
(* one exception is a plan that promotes on no evidence: a paused canary   *)
(* that loses its readiness is measured again.                             *)
ApprovalIsForThisRelease ==
  [][ (obj.st.phase = "Paused" /\ obj'.st.phase = "Promoting")
        => \/ hist.approvedFor = obj.st.revision
           \/ Plan.onInconclusive = "Promote" ]_vars

Quiet == pass.at = "idle" /\ ~wake /\ seen = Current

(* There are replicas for a candidate on every rung.                       *)
Room == /\ Total >= 2 /\ Plan.weights # << >>
        /\ \A i \in DOMAIN Plan.weights : Plan.weights[i] > 0

(* A controller with nothing queued has nothing left to do, whatever calls *)
(* failed on the way: a candidate's Deployment exists only while status    *)
(* says a canary is active, and then does if there is room for it; the     *)
(* canary is of the target, next to a primary on the last known-good       *)
(* revision; one that is not waiting for a person has a requeue pending.   *)
QuietMeansDone ==
  Quiet /\ obj.valid =>
    /\ dep.uid # NoUID => isActive(obj.st.phase) /\ dep.revision = obj.st.revision
    /\ isActive(obj.st.phase) =>
         /\ Room => dep.uid # NoUID
         /\ obj.st.revision = obj.target /\ primary.revision = obj.stable
    /\ obj.st.phase \in {"Progressing", "Promoting"} => timer

(* "Only a revision that actually reached availability is a safe rollback  *)
(* target" (status.go:165): when the last known-good revision changes, the *)
(* primary has completed its rollout to the new one.                       *)
LastGoodWasAvailable ==
  [][ obj'.stable # obj.stable =>
        /\ primary.revision = obj'.stable /\ primary.synced
        /\ primary.health = "converged" ]_vars
=============================================================================
