-------------------------------- MODULE Canary --------------------------------
(***************************************************************************)
(* The canary state machine: internal/canary/state.go and verdict.go.      *)
(*                                                                         *)
(* The Go package is pure: Next maps an Input to an Output.  So is this    *)
(* module: it declares no variables, and the modules that drive it decide  *)
(* when a pass happens and what it is given.                               *)
(*                                                                         *)
(* Time.  The code compares in.Now with recorded instants.  An instant is  *)
(* represented here by its age, the time elapsed since, so that "now is    *)
(* not before t + d" reads age >= d; the zero time.Time is NoTime.  The    *)
(* driver ages every recorded instant when its clock ticks.                *)
(***************************************************************************)
EXTENDS Weights

CONSTANTS NoRevision,   \* the empty revision string
          NoUID         \* the empty Deployment UID

NoTime == -1

Verdicts == {"Pass", "Fail", "Inconclusive", "Error"}
NoRound  == "none"      \* a nil *Round

-----------------------------------------------------------------------------
(* The persisted position (State) and what a Deployment looks like to it.  *)

NoReadiness == [step |-> 0, weight |-> 0, total |-> 0, canary |-> 0,
                generation |-> 0, uid |-> NoUID]

EmptyState ==
  [phase |-> "Idle", revision |-> NoRevision, stable |-> NoRevision,
   failed |-> NoRevision, scopeReady |-> FALSE, step |-> 0,
   availableSince |-> NoTime, lastAnalysis |-> NoTime, startedAt |-> NoTime,
   readiness |-> NoReadiness, failedChecks |-> 0, consecErr |-> 0,
   consecInconcl |-> 0]

(* DeploymentObservation.  Observe asks of the status counters only        *)
(* whether they all agree with spec.replicas for the current generation,   *)
(* so one field answers it: `settled` holds when observedGeneration >=     *)
(* generation and the updated, ready and available counts equal replicas.  *)
NoDeployment == [uid |-> NoUID, revision |-> NoRevision, generation |-> 0,
                 replicas |-> 0, settled |-> FALSE]

isActive(phase) == phase \in {"Waiting", "Progressing", "Paused"}

currentWeight(plan, st) == WeightAt(plan.weights, st.step)

-----------------------------------------------------------------------------
(* verdict.go *)

rank(v) == CASE v = "Pass" -> 0 [] v = "Inconclusive" -> 1
             [] v = "Fail" -> 2 [] v = "Error" -> 3

(* The round's verdict is its most alarming check; no checks is an Error.  *)
Aggregate(checks) ==
  IF checks = {} THEN "Error"
  ELSE CHOOSE v \in checks : \A w \in checks : rank(w) <= rank(v)

(* A mutant: a Pass forgives the failures counted so far.                  *)
applyForgiving(st, verdict) ==
  [st EXCEPT !.failedChecks  = CASE verdict = "Fail" -> @ + 1
                                 [] verdict = "Pass" -> 0 [] OTHER -> @,
             !.consecErr     = IF verdict = "Error" THEN @ + 1 ELSE 0,
             !.consecInconcl = CASE verdict = "Inconclusive" -> @ + 1
                                 [] verdict = "Error" -> @ [] OTHER -> 0]

(* counters.apply: only a Fail spends the failure budget and nothing gives *)
(* it back; an Error leaves the inconclusive run standing.                 *)
apply(st, verdict) ==
  [st EXCEPT !.failedChecks  = IF verdict = "Fail" THEN @ + 1 ELSE @,
             !.consecErr     = IF verdict = "Error" THEN @ + 1 ELSE 0,
             !.consecInconcl = CASE verdict = "Inconclusive" -> @ + 1
                                 [] verdict = "Error" -> @ [] OTHER -> 0]

-----------------------------------------------------------------------------
(* Observe: bind the readiness clock to this rung, this capacity and this  *)
(* incarnation of the candidate Deployment.                                *)

splitFor(in, weight) == Split(in.total, weight)

ReadinessTarget(in) ==
  LET w == currentWeight(in.plan, in.state)
  IN  [step |-> in.state.step, weight |-> w, total |-> in.total,
       canary |-> splitFor(in, w).canary,
       generation |-> in.dep.generation, uid |-> in.dep.uid]

IsReady(in) ==
  LET count == ReadinessTarget(in).canary
  IN  /\ count > 0
      /\ in.dep.revision = in.state.revision
      /\ in.dep.generation > 0
      /\ in.dep.uid # NoUID
      /\ in.dep.replicas = count
      /\ in.dep.settled

Observe(in) ==
  LET st      == in.state
      new     == ReadinessTarget(in)
      ready   == IsReady(in)
      scoped  == /\ st.scopeReady
                 /\ st.readiness.uid \in {NoUID, new.uid}
      restart == new # st.readiness \/ ~ready
  IN  IF ~isActive(st.phase) \/ st.revision # in.target THEN in
      ELSE IF restart
      THEN [in EXCEPT !.round = NoRound, !.state =
              [st EXCEPT !.scopeReady = scoped, !.readiness = new,
                         !.availableSince = IF ready THEN 0 ELSE NoTime,
                         !.lastAnalysis = NoTime, !.consecErr = 0,
                         !.consecInconcl = 0, !.phase = "Waiting"]]
      ELSE [in EXCEPT !.state.availableSince = IF @ = NoTime THEN 0 ELSE @]

(* The warm-up and one complete measurement window of this rung.           *)
Warm(plan, st) ==
  /\ st.availableSince # NoTime
  /\ st.availableSince >= plan.initialDelay + plan.window

DueForAnalysis(plan, st) ==
  /\ st.phase \in {"Progressing", "Waiting"}
  /\ Warm(plan, st)
  /\ st.lastAnalysis = NoTime \/ st.lastAnalysis >= plan.interval

(* Until the next round; never zero, which would mean "no timer".          *)
nextAnalysisIn(plan, st) ==
  IF st.lastAnalysis = NoTime THEN plan.interval
  ELSE IF st.lastAnalysis >= plan.interval THEN 1
  ELSE plan.interval - st.lastAnalysis

-----------------------------------------------------------------------------
(* The outcomes.  Every Output is one of three shapes: no canary (the      *)
(* primary takes every replica), the canary's revision becoming primary,   *)
(* or the split of a weight.                                               *)

Alone(in, st, action, reason, weight, requeue) ==
  [state |-> st, action |-> action, reason |-> reason, weight |-> weight,
   primary |-> in.total, canary |-> 0, requeue |-> requeue]

Divided(in, st, action, reason, weight, requeue) ==
  LET s == splitFor(in, weight)
  IN  [state |-> st, action |-> action, reason |-> reason, weight |-> weight,
       primary |-> s.primary, canary |-> s.canary, requeue |-> requeue]

Idle(in, reason) ==
  Alone(in, [EmptyState EXCEPT !.failed = in.state.failed], "None", reason, 0, 0)

(* A mutant: a new trial forgets what was rejected before it.              *)
FreshForgetful(in, phase) ==
  [EmptyState EXCEPT !.phase = phase, !.revision = in.target, !.stable = in.stable]

Fresh(in, phase) ==
  [EmptyState EXCEPT !.phase = phase, !.revision = in.target,
                     !.stable = in.stable, !.failed = in.state.failed]

(* No candidate can exist yet, so neither clock nor budget starts.         *)
capacityHold(in) ==
  Alone(in, Fresh(in, "Waiting"), "Wait", "InsufficientReplicas", 0,
        in.plan.interval)

start(in) ==
  Divided(in, [Fresh(in, "Waiting") EXCEPT !.startedAt = 0], "Start",
          "CanaryProgressing", WeightAt(in.plan.weights, 0), in.plan.interval)

startOrHold(in) ==
  IF splitFor(in, WeightAt(in.plan.weights, 0)).canary = 0
  THEN capacityHold(in) ELSE start(in)

(* A mutant: a promotion is not looked at again.                           *)
PromoteUnattended(in, st) ==
  Alone(in, [st EXCEPT !.phase = "Promoting"], "Promote", "CanaryPromoted",
        100, 0)

Promote(in, st) ==
  Alone(in, [st EXCEPT !.phase = "Promoting"], "Promote", "CanaryPromoted",
        100, in.plan.interval)

Pause(in, st) ==
  Divided(in, [st EXCEPT !.phase = "Paused"], "Pause", "AwaitingApproval",
          currentWeight(in.plan, st), 0)

rollback(in, st, reason) ==
  Alone(in, [st EXCEPT !.phase = "RollingBack", !.failed = st.revision],
        "Rollback", reason, 0, 0)

-----------------------------------------------------------------------------
(* The phases' handlers. *)

(* begin: whether a canary should start at all.                            *)
begin(in) ==
  IF in.target # NoRevision /\ in.target = in.state.failed
  THEN Idle(in, "CanaryRolledBack")
  ELSE IF in.target \in {in.stable, NoRevision}
  THEN Idle(in, "CanaryNotRunning")
  ELSE IF in.stable = NoRevision
  THEN Idle(in, "NoLastGoodRevision")
  ELSE IF in.plan.weights = << >>
  THEN Promote(in, [Fresh(in, "Promoting") EXCEPT !.startedAt = 0])
  ELSE startOrHold(in)

promoting(in, st) ==
  IF st.revision # in.target THEN begin(in)
  ELSE IF in.stable = st.revision THEN Idle(in, "CanaryPromoted")
  ELSE Promote(in, st)

paused(in, st) == IF in.approved THEN Promote(in, st) ELSE Pause(in, st)

hold(in, st, phase, reason, requeue) ==
  Divided(in, [st EXCEPT !.phase = phase], "Wait", reason,
          currentWeight(in.plan, st), requeue)

(* A mutant: the last rung is promoted on arrival, before it is judged.    *)
advanceEarly(in, st) ==
  IF st.step + 1 >= Len(in.plan.weights) - 1
  THEN (IF in.plan.requireApproval THEN Pause(in, st) ELSE Promote(in, st))
  ELSE LET up == [st EXCEPT !.step = @ + 1, !.phase = "Waiting",
                            !.availableSince = NoTime, !.lastAnalysis = NoTime]
       IN  Divided(in, up, "Advance", "CanaryChecksPassed",
                   currentWeight(in.plan, up), in.plan.interval)

advance(in, st) ==
  IF st.step >= Len(in.plan.weights) - 1
  THEN (IF in.plan.requireApproval THEN Pause(in, st) ELSE Promote(in, st))
  ELSE LET up == [st EXCEPT !.step = @ + 1, !.phase = "Waiting",
                            !.availableSince = NoTime, !.lastAnalysis = NoTime]
       IN  Divided(in, up, "Advance", "CanaryChecksPassed",
                   currentWeight(in.plan, up), in.plan.interval)

onInconclusive(in, st) ==
  CASE in.plan.onInconclusive = "Rollback" -> rollback(in, st, "AnalysisInconclusive")
    [] in.plan.onInconclusive = "Promote"  -> Promote(in, st)
    [] in.plan.onInconclusive = "Wait"     ->
         hold(in, st, "Progressing", "AnalysisInconclusive", in.plan.interval)

(* What a round that was due does to the canary.                           *)
judge(in, st) ==
  CASE in.round = "Error" ->
         IF st.consecErr >= in.plan.consecutiveErrorLimit
         THEN rollback(in, st, "AnalysisError")
         ELSE hold(in, st, "Progressing", "AnalysisError", in.plan.interval)
    [] in.round = "Inconclusive" ->
         IF st.consecInconcl >= in.plan.inconclusiveLimit
         THEN onInconclusive(in, st)
         ELSE hold(in, st, "Progressing", "AnalysisInconclusive", in.plan.interval)
    [] in.round = "Fail" ->
         IF st.failedChecks >= in.plan.failureThreshold
         THEN rollback(in, st, "CanaryRolledBack")
         ELSE hold(in, st, "Progressing", "CanaryChecksFailed", in.plan.interval)
    [] in.round = "Pass" -> advance(in, st)

(* A mutant: readiness flaps push the deadline back.                       *)
DeadlinePassedSinceReady(plan, st) ==
  /\ st.lastAnalysis = NoTime /\ plan.progressDeadline > 0
  /\ st.availableSince # NoTime
  /\ st.availableSince >= plan.progressDeadline
  /\ ~Warm(plan, st)

(* Fresh evidence is bounded from the original start, readiness flaps      *)
(* included.                                                               *)
DeadlinePassed(plan, st) ==
  /\ st.lastAnalysis = NoTime /\ plan.progressDeadline > 0
  /\ st.startedAt # NoTime
  /\ st.startedAt >= plan.progressDeadline
  /\ ~Warm(plan, st)

analyse(in, st) ==
  IF splitFor(in, currentWeight(in.plan, st)).canary = 0 THEN capacityHold(in)
  ELSE IF st.startedAt = NoTime THEN start(in)
  ELSE IF DeadlinePassed(in.plan, st)
  THEN rollback(in, st, "CanaryProgressDeadlineExceeded")
  ELSE IF st.availableSince = NoTime
  THEN hold(in, st, "Waiting", "CanaryProgressing", in.plan.interval)
  ELSE IF ~Warm(in.plan, st)
  THEN hold(in, st, "Progressing", "CanaryProgressing",
            in.plan.initialDelay + in.plan.window - st.availableSince)
  ELSE IF in.round = NoRound \/ ~DueForAnalysis(in.plan, st)
  THEN hold(in, st, "Progressing", "CanaryProgressing", nextAnalysisIn(in.plan, st))
  ELSE judge(in, [apply(st, in.round) EXCEPT !.lastAnalysis = 0])

(* Next, once it has observed.                                             *)
Dispatch(in, st) ==
  IF in.aborted /\ isActive(st.phase) THEN rollback(in, st, "CanaryAborted")
  ELSE IF isActive(st.phase) /\ st.revision # in.target THEN startOrHold(in)
  ELSE CASE st.phase = "Promoting" -> promoting(in, st)
         [] st.phase \in {"Idle", "RollingBack"} -> begin(in)
         [] st.phase = "Paused" -> paused(in, st)
         [] st.phase \in {"Waiting", "Progressing"} -> analyse(in, st)

NextPosition(input) == Dispatch(Observe(input), Observe(input).state)
=============================================================================
