------------------------------ MODULE PlanLemmas ------------------------------
(***************************************************************************)
(* What one pass decides, whoever drives it: facts about the operators of  *)
(* Canary and RolloutPlan for every input of the right type, on which the  *)
(* proofs about Rollout and about Controller rest.                         *)
(*                                                                         *)
(* Every Output of the state machine meets a contract (Meets); the         *)
(* operators that build an Output meet it, so the handlers do, so Next     *)
(* does, and planRollout keeps what matters of it (Planned).  Aims says    *)
(* what an action is about: it runs or promotes nothing but the target,    *)
(* and rolls back nothing but the canary in flight.                        *)
(***************************************************************************)
EXTENDS RolloutPlan, TLAPS

(* Split never adds or loses a pod, and keeps both sides within the total  *)
(* (weights.go, Split): the canary has a pod whenever there are two to     *)
(* divide and a positive weight, the primary one below 100%.               *)
LEMMA SplitBounds ==
  ASSUME NEW t \in Nat, NEW w \in Nat
  PROVE  LET s == Split(t, w)
         IN  /\ s \in [primary : Nat, canary : Nat]
             /\ s.primary + s.canary = t
             /\ (w > 0 /\ t > 1) => s.canary >= 1
             /\ (w < 100 /\ t > 0) => s.primary >= 1
  <1> DEFINE up == (t * w + 99) \div 100
  <1>1. t * w + 99 \in Nat
    OBVIOUS
  <1>2. up \in Nat
    BY <1>1
  <1> HIDE DEF up
  <1>3. QED
    BY <1>2 DEF Split, CanaryShare, up

(* Inside a pass the machine also uses the phase Waiting.                  *)
MachineState ==
  [phase : Phases \cup {"Waiting"}, revision : Revs, stable : Revs, failed : Revs,
   scopeReady : BOOLEAN, step : Nat, availableSince : Ages,
   lastAnalysis : Ages, startedAt : Ages, readiness : ReadinessType,
   failedChecks : Nat, consecErr : Nat, consecInconcl : Nat]

InputType ==
  [plan : PlanType, state : MachineState, target : Revisions, stable : Revs,
   total : Nat, dep : DeploymentType, round : Verdicts \cup {NoRound},
   approved : BOOLEAN, aborted : BOOLEAN]

Actions == {"None", "Start", "Advance", "Wait", "Pause", "Promote", "Rollback"}

OutputType ==
  [state : MachineState, action : Actions, reason : Reasons, weight : Nat,
   primary : Nat, canary : Nat, requeue : Nat]

(* A canary of a named revision is under way against in.stable.            *)
InFlight(in, s) ==
  /\ s \in MachineState
  /\ in.stable # NoRevision /\ s.stable = in.stable /\ s.revision \in Revisions
  /\ s.failed = in.state.failed

(* What an Output promises: a timer wherever the machine waits for time or *)
(* for the primary, and a fallback wherever a canary keeps running.        *)
Meets(in, out) ==
  /\ out \in OutputType
  /\ out.action \in {"Start", "Advance", "Wait", "Promote"} => out.requeue > 0
  /\ out.action \in {"Start", "Advance", "Wait", "Pause"} => InFlight(in, out.state)
  /\ out.action = "Pause" => out.canary > 0

-----------------------------------------------------------------------------
(* The operators an Output is built from. *)

LEMMA ActionNames ==
  /\ "None" \in Actions /\ "Start" \in Actions /\ "Advance" \in Actions
  /\ "Wait" \in Actions /\ "Pause" \in Actions /\ "Promote" \in Actions
  /\ "Rollback" \in Actions
  BY Zenon DEF Actions

LEMMA ReasonNames ==
  /\ "CanaryNotRunning" \in Reasons
  /\ "CanaryRolledBack" \in Reasons
  /\ "NoLastGoodRevision" \in Reasons
  /\ "InsufficientReplicas" \in Reasons
  /\ "CanaryProgressing" \in Reasons
  /\ "CanaryPromoted" \in Reasons
  /\ "AwaitingApproval" \in Reasons
  /\ "CanaryChecksPassed" \in Reasons
  /\ "CanaryChecksFailed" \in Reasons
  /\ "AnalysisInconclusive" \in Reasons
  /\ "AnalysisError" \in Reasons
  /\ "CanaryProgressDeadlineExceeded" \in Reasons
  /\ "CanaryAborted" \in Reasons
  /\ "MetricsScopePending" \in Reasons
  BY Zenon DEF Reasons

LEMMA WeightTyped ==
  ASSUME NEW plan_ \in PlanType, NEW n \in Nat
  PROVE  WeightAt(plan_.weights, n) \in Nat
  <1>1. plan_.weights \in Seq(Nat)
    BY Zenon DEF PlanType
  <1>2. QED
    BY <1>1 DEF WeightAt

LEMMA AloneTyped ==
  ASSUME NEW in \in InputType, NEW s \in MachineState, NEW a \in Actions,
         NEW r \in Reasons, NEW w \in Nat, NEW q \in Nat
  PROVE  /\ Alone(in, s, a, r, w, q) \in OutputType
         /\ Alone(in, s, a, r, w, q).state = s
         /\ Alone(in, s, a, r, w, q).action = a
         /\ Alone(in, s, a, r, w, q).canary = 0
         /\ Alone(in, s, a, r, w, q).requeue = q
  <1>1. in.total \in Nat
    BY Zenon DEF InputType
  <1>2. QED
    BY <1>1, Zenon DEF Alone, OutputType

LEMMA DividedTyped ==
  ASSUME NEW in \in InputType, NEW s \in MachineState, NEW a \in Actions,
         NEW r \in Reasons, NEW w \in Nat, NEW q \in Nat
  PROVE  /\ Divided(in, s, a, r, w, q) \in OutputType
         /\ Divided(in, s, a, r, w, q).state = s
         /\ Divided(in, s, a, r, w, q).action = a
         /\ Divided(in, s, a, r, w, q).canary = splitFor(in, w).canary
         /\ Divided(in, s, a, r, w, q).requeue = q
  <1>1. in.total \in Nat
    BY Zenon DEF InputType
  <1>2. splitFor(in, w) \in [primary : Nat, canary : Nat]
    BY <1>1, SplitBounds, Zenon DEF splitFor
  <1>3. splitFor(in, w).primary \in Nat /\ splitFor(in, w).canary \in Nat
    BY <1>2, Zenon
  <1>4. QED
    BY <1>3, Zenon DEF Divided, OutputType

LEMMA EmptyTyped == EmptyState \in MachineState
  BY NameAssumption, Zenon
  DEF EmptyState, NoReadiness, MachineState, ReadinessType, Phases, Ages, Revs,
      AnyUID, AnyGeneration, NoTime

LEMMA FreshTyped ==
  ASSUME NEW in \in InputType, NEW p \in Phases \cup {"Waiting"}
  PROVE  /\ Fresh(in, p) \in MachineState
         /\ [Fresh(in, p) EXCEPT !.startedAt = 0] \in MachineState
         /\ Fresh(in, p).stable = in.stable /\ Fresh(in, p).revision = in.target
         /\ Fresh(in, p).failed = in.state.failed
  <1>1. in.target \in Revs /\ in.stable \in Revs /\ in.state.failed \in Revs
    BY Zenon DEF InputType, MachineState, Revs
  <1>2. QED
    BY <1>1, EmptyTyped, Zenon DEF Fresh, MachineState, Ages

-----------------------------------------------------------------------------
(* The outcomes. *)

LEMMA IdleMeets ==
  ASSUME NEW in \in InputType, NEW r \in Reasons
  PROVE  Meets(in, Idle(in, r))
  <1> DEFINE s == [EmptyState EXCEPT !.failed = in.state.failed]
  <1>1. in.state.failed \in Revs
    BY Zenon DEF InputType, MachineState
  <1>2. s \in MachineState
    BY <1>1, EmptyTyped, Zenon DEF MachineState
  <1> HIDE DEF s
  <1>3. Idle(in, r) = Alone(in, s, "None", r, 0, 0)
    BY Zenon DEF Idle, s
  <1>4. QED
    BY <1>2, <1>3, AloneTyped DEF Meets, Actions

LEMMA StartOrHoldMeets ==
  ASSUME NEW in \in InputType, in.stable # NoRevision
  PROVE  /\ Meets(in, capacityHold(in)) /\ Meets(in, start(in))
         /\ Meets(in, startOrHold(in))
  <1> DEFINE f == Fresh(in, "Waiting")
             g == [f EXCEPT !.startedAt = 0]
             q == in.plan.interval
  <1>1. /\ q \in Nat /\ q > 0 /\ in.plan \in PlanType
        /\ in.target \in Revisions
    BY DEF InputType, PlanType
  <1>2. f \in MachineState /\ f.stable = in.stable /\ f.revision = in.target
        /\ f.failed = in.state.failed
    BY FreshTyped, Zenon
  <1>3. g \in MachineState
    BY FreshTyped, Zenon
  <1> HIDE DEF f, q
  <1>4. g.stable = f.stable /\ g.revision = f.revision /\ g.failed = f.failed
    BY <1>2, Zenon DEF MachineState
  <1> HIDE DEF g
  <1>5. WeightAt(in.plan.weights, 0) \in Nat
    BY <1>1, WeightTyped, Zenon
  <1>6. Meets(in, capacityHold(in))
    <2>1. capacityHold(in) = Alone(in, f, "Wait", "InsufficientReplicas", 0, q)
      BY Zenon DEF capacityHold, f, q
    <2> DEFINE o == Alone(in, f, "Wait", "InsufficientReplicas", 0, q)
    <2>2. /\ o \in OutputType /\ o.state = f /\ o.action = "Wait"
          /\ o.requeue = q
      <3>1. "Wait" \in Actions /\ "InsufficientReplicas" \in Reasons
        BY ActionNames, ReasonNames, Zenon
      <3>2. QED
        BY <1>1, <1>2, <3>1, AloneTyped
    <2> HIDE DEF o
    <2>3. QED
      BY <1>1, <1>2, <2>1, <2>2, Zenon DEF Meets, InFlight, o
  <1>7. Meets(in, start(in))
    <2>1. start(in) = Divided(in, g, "Start", "CanaryProgressing",
                              WeightAt(in.plan.weights, 0), q)
      BY Zenon DEF start, g, f, q
    <2> DEFINE o == Divided(in, g, "Start", "CanaryProgressing",
                            WeightAt(in.plan.weights, 0), q)
    <2>2. /\ o \in OutputType /\ o.state = g /\ o.action = "Start"
          /\ o.requeue = q
      <3>1. "Start" \in Actions /\ "CanaryProgressing" \in Reasons
        BY ActionNames, ReasonNames, Zenon
      <3>2. QED
        BY <1>1, <1>3, <1>5, <3>1, DividedTyped
    <2> HIDE DEF o
    <2>3. QED
      BY <1>1, <1>2, <1>3, <1>4, <2>1, <2>2, Zenon DEF Meets, InFlight, o
  <1>8. QED
    BY <1>6, <1>7, Zenon DEF startOrHold

(* The outcomes that keep the position they are given.                     *)
LEMMA PromoteMeets ==
  ASSUME NEW in \in InputType, NEW s \in MachineState
  PROVE  Meets(in, Promote(in, s))
  <1> DEFINE g == [s EXCEPT !.phase = "Promoting"]
  <1>1. g \in MachineState
    BY Zenon DEF MachineState, Phases
  <1> DEFINE q == in.plan.interval
  <1>2. q \in Nat /\ q > 0
    BY DEF InputType, PlanType
  <1> HIDE DEF g, q
  <1>3. Promote(in, s) = Alone(in, g, "Promote", "CanaryPromoted", 100, q)
    BY Zenon DEF Promote, g, q
  <1> DEFINE o == Alone(in, g, "Promote", "CanaryPromoted", 100, q)
  <1>4. /\ o \in OutputType /\ o.action = "Promote" /\ o.requeue = q
    BY <1>1, <1>2, AloneTyped, ActionNames, ReasonNames
  <1> HIDE DEF o
  <1>5. QED
    BY <1>2, <1>3, <1>4, Zenon DEF Meets, o

LEMMA rollbackMeets ==
  ASSUME NEW in \in InputType, NEW s \in MachineState, NEW r \in Reasons
  PROVE  Meets(in, rollback(in, s, r))
  <1> DEFINE g == [s EXCEPT !.phase = "RollingBack", !.failed = s.revision]
  <1>1. g \in MachineState
    BY Zenon DEF MachineState, Phases
  <1> HIDE DEF g
  <1>2. rollback(in, s, r) = Alone(in, g, "Rollback", r, 0, 0)
    BY Zenon DEF rollback, g
  <1>3. QED
    BY <1>1, <1>2, AloneTyped DEF Meets, Actions

LEMMA PauseMeets ==
  ASSUME NEW in \in InputType, NEW s, InFlight(in, s),
         splitFor(in, currentWeight(in.plan, s)).canary > 0
  PROVE  Meets(in, Pause(in, s))
  <1> DEFINE g == [s EXCEPT !.phase = "Paused"]
             w == currentWeight(in.plan, s)
  <1>1. s \in MachineState
    BY Zenon DEF InFlight
  <1>2. /\ g \in MachineState /\ g.stable = s.stable /\ g.revision = s.revision
        /\ g.failed = s.failed
    BY <1>1, Zenon DEF MachineState, Phases
  <1>3. in.plan \in PlanType /\ s.step \in Nat
    BY <1>1, Zenon DEF InputType, MachineState
  <1>4. w \in Nat
    BY <1>3, WeightTyped, Zenon DEF currentWeight
  <1> HIDE DEF g, w
  <1>5. Pause(in, s) = Divided(in, g, "Pause", "AwaitingApproval", w, 0)
    BY Zenon DEF Pause, g, w
  <1> DEFINE o == Divided(in, g, "Pause", "AwaitingApproval", w, 0)
  <1>6. /\ o \in OutputType /\ o.state = g /\ o.action = "Pause"
        /\ o.canary = splitFor(in, w).canary
    BY <1>2, <1>4, DividedTyped, ActionNames, ReasonNames
  <1> HIDE DEF o
  <1>7. QED
    BY <1>2, <1>5, <1>6, Zenon DEF Meets, InFlight, o, w

LEMMA holdMeets ==
  ASSUME NEW in \in InputType, NEW s, InFlight(in, s),
         NEW p \in {"Waiting", "Progressing"}, NEW r \in Reasons,
         NEW q \in Nat, q > 0
  PROVE  Meets(in, hold(in, s, p, r, q))
  <1> DEFINE g == [s EXCEPT !.phase = p]
             w == currentWeight(in.plan, s)
  <1>1. s \in MachineState
    BY Zenon DEF InFlight
  <1>2. /\ g \in MachineState /\ g.stable = s.stable /\ g.revision = s.revision
        /\ g.failed = s.failed
    BY <1>1, Zenon DEF MachineState, Phases
  <1>3. in.plan \in PlanType /\ s.step \in Nat
    BY <1>1, Zenon DEF InputType, MachineState
  <1>4. w \in Nat
    BY <1>3, WeightTyped, Zenon DEF currentWeight
  <1> HIDE DEF g, w
  <1>5. hold(in, s, p, r, q) = Divided(in, g, "Wait", r, w, q)
    BY Zenon DEF hold, g, w
  <1> DEFINE o == Divided(in, g, "Wait", r, w, q)
  <1>6. o \in OutputType /\ o.state = g /\ o.action = "Wait" /\ o.requeue = q
    BY <1>2, <1>4, ActionNames, DividedTyped
  <1> HIDE DEF o
  <1>7. QED
    BY <1>2, <1>5, <1>6, Zenon DEF Meets, InFlight, o
-----------------------------------------------------------------------------
(* The handlers.  Where Next calls one, an active phase has a fallback.    *)

LEMMA beginMeets ==
  ASSUME NEW in \in InputType
  PROVE  Meets(in, begin(in))
  <1> DEFINE f == [Fresh(in, "Promoting") EXCEPT !.startedAt = 0]
  <1>1. f \in MachineState
    BY FreshTyped, Zenon DEF Phases
  <1> HIDE DEF f
  <1>2. Meets(in, Promote(in, f))
    BY <1>1, PromoteMeets, Zenon
  <1>3. in.stable # NoRevision => Meets(in, startOrHold(in))
    BY StartOrHoldMeets, Zenon
  <1>4. /\ Meets(in, Idle(in, "CanaryRolledBack")) /\ Meets(in, Idle(in, "CanaryNotRunning"))
        /\ Meets(in, Idle(in, "NoLastGoodRevision"))
    BY IdleMeets, ReasonNames, Zenon
  <1>5. QED
    BY <1>2, <1>3, <1>4, Zenon DEF begin, f

LEMMA promotingMeets ==
  ASSUME NEW in \in InputType, NEW s \in MachineState
  PROVE  Meets(in, promoting(in, s))
  BY beginMeets, PromoteMeets, IdleMeets, ReasonNames, Zenon DEF promoting

LEMMA pausedMeets ==
  ASSUME NEW in \in InputType, NEW s, InFlight(in, s),
         splitFor(in, currentWeight(in.plan, s)).canary > 0
  PROVE  Meets(in, paused(in, s))
  <1>1. s \in MachineState
    BY Zenon DEF InFlight
  <1>2. QED
    BY <1>1, PromoteMeets, PauseMeets, Zenon DEF paused

LEMMA advanceMeets ==
  ASSUME NEW in \in InputType, NEW s, InFlight(in, s),
         splitFor(in, currentWeight(in.plan, s)).canary > 0
  PROVE  Meets(in, advance(in, s))
  <1> DEFINE up == [s EXCEPT !.step = @ + 1, !.phase = "Waiting",
                             !.availableSince = NoTime, !.lastAnalysis = NoTime]
             w  == currentWeight(in.plan, up)
             q  == in.plan.interval
  <1>1. s \in MachineState
    BY Zenon DEF InFlight
  <1>2. /\ up \in MachineState /\ up.stable = s.stable /\ up.revision = s.revision
        /\ up.step \in Nat /\ up.failed = s.failed
    <2>1. s.step + 1 \in Nat /\ NoTime \in Ages /\ "Waiting" \in Phases \cup {"Waiting"}
      BY <1>1 DEF MachineState, Ages
    <2>2. QED
      BY <1>1, <2>1, Zenon DEF MachineState
  <1>3. in.plan \in PlanType /\ q \in Nat /\ q > 0
    BY DEF InputType, PlanType
  <1> HIDE DEF up, q
  <1>4. w \in Nat
    BY <1>2, <1>3, WeightTyped, Zenon DEF currentWeight
  <1> HIDE DEF w
  <1> DEFINE o == Divided(in, up, "Advance", "CanaryChecksPassed", w, q)
  <1>5. /\ o \in OutputType /\ o.state = up /\ o.action = "Advance"
        /\ o.requeue = q
    <2>1. up \in MachineState /\ q \in Nat /\ w \in Nat
      BY <1>2, <1>3, <1>4, Zenon
    <2>2. "Advance" \in Actions /\ "CanaryChecksPassed" \in Reasons
      BY ActionNames, ReasonNames, Zenon
    <2>3. QED
      BY <2>1, <2>2, DividedTyped
  <1> HIDE DEF o
  <1>6. Meets(in, o)
    BY <1>2, <1>3, <1>5, Zenon DEF Meets, InFlight
  <1>7. Meets(in, Promote(in, s)) /\ Meets(in, Pause(in, s))
    BY <1>1, PromoteMeets, PauseMeets, Zenon
  <1>8. QED
    BY <1>6, <1>7, Zenon DEF advance, o, w, up, q

LEMMA judgeMeets ==
  ASSUME NEW in \in InputType, NEW s, InFlight(in, s), in.round \in Verdicts,
         splitFor(in, currentWeight(in.plan, s)).canary > 0
  PROVE  Meets(in, judge(in, s))
  <1> DEFINE q == in.plan.interval
  <1>1. s \in MachineState
    BY Zenon DEF InFlight
  <1>2. /\ q \in Nat /\ q > 0
        /\ in.plan.onInconclusive \in {"Wait", "Rollback", "Promote"}
    BY DEF InputType, PlanType
  <1> HIDE DEF q
  <1>3. \A r \in Reasons : Meets(in, rollback(in, s, r))
    BY <1>1, rollbackMeets, Zenon
  <1>4. \A r \in Reasons : Meets(in, hold(in, s, "Progressing", r, q))
    BY <1>2, holdMeets, Zenon
  <1>5. Meets(in, advance(in, s)) /\ Meets(in, Promote(in, s))
    BY <1>1, advanceMeets, PromoteMeets, Zenon
  <1>6. Meets(in, onInconclusive(in, s))
    BY <1>2, <1>3, <1>4, <1>5, ReasonNames, Zenon DEF onInconclusive, q
  <1>7. QED
    BY <1>3, <1>4, <1>5, <1>6, ReasonNames, Zenon DEF judge, Verdicts, q
LEMMA applyTyped ==
  ASSUME NEW in \in InputType, NEW s, InFlight(in, s), NEW v \in Verdicts
  PROVE  LET t == [apply(s, v) EXCEPT !.lastAnalysis = 0]
         IN  InFlight(in, t) /\ t.step = s.step
  <1> DEFINE f == IF v = "Fail" THEN s.failedChecks + 1 ELSE s.failedChecks
             e == IF v = "Error" THEN s.consecErr + 1 ELSE 0
             i == CASE v = "Inconclusive" -> s.consecInconcl + 1
                    [] v = "Error" -> s.consecInconcl [] OTHER -> 0
             t == [s EXCEPT !.failedChecks = f, !.consecErr = e, !.consecInconcl = i,
                            !.lastAnalysis = 0]
  <1>1. s \in MachineState
    BY Zenon DEF InFlight
  <1>2. f \in Nat /\ e \in Nat /\ i \in Nat /\ 0 \in Ages
    BY <1>1 DEF MachineState, Ages
  <1>3. [apply(s, v) EXCEPT !.lastAnalysis = 0] = t
    BY <1>1, Zenon DEF apply, MachineState
  <1> HIDE DEF f, e, i
  <1>4. /\ t \in MachineState /\ t.stable = s.stable /\ t.revision = s.revision
        /\ t.step = s.step /\ t.failed = s.failed
    BY <1>1, <1>2, Zenon DEF MachineState
  <1> HIDE DEF t
  <1>5. QED
    BY <1>3, <1>4, Zenon DEF InFlight

LEMMA analyseMeets ==
  ASSUME NEW in \in InputType, NEW s, InFlight(in, s)
  PROVE  Meets(in, analyse(in, s))
  <1> DEFINE p == in.plan
             w == currentWeight(in.plan, s)
             t == [apply(s, in.round) EXCEPT !.lastAnalysis = 0]
  <1>1. s \in MachineState /\ in.stable # NoRevision
    BY Zenon DEF InFlight
  <1>2. /\ p \in PlanType /\ p.interval \in Nat /\ p.interval > 0
        /\ p.initialDelay \in Nat /\ p.window \in Nat
        /\ in.total \in Nat /\ in.round \in Verdicts \cup {NoRound}
    BY DEF InputType, PlanType
  <1>3. /\ s.step \in Nat /\ s.availableSince \in Ages /\ s.lastAnalysis \in Ages
    BY <1>1, Zenon DEF MachineState
  <1>4. w \in Nat
    BY <1>2, <1>3, WeightTyped, Zenon DEF currentWeight
  <1>5. splitFor(in, w).canary \in Nat
    BY <1>2, <1>4, SplitBounds, Zenon DEF splitFor
  <1> HIDE DEF p, w, t
  <1>6. Meets(in, capacityHold(in)) /\ Meets(in, start(in))
    BY <1>1, StartOrHoldMeets, Zenon
  <1>7. Meets(in, rollback(in, s, "CanaryProgressDeadlineExceeded"))
    BY <1>1, ReasonNames, rollbackMeets, Zenon
  <1>8. Meets(in, hold(in, s, "Waiting", "CanaryProgressing", p.interval))
    BY <1>2, ReasonNames, holdMeets, Zenon
  <1>9. ASSUME s.availableSince # NoTime, ~Warm(p, s)
        PROVE  Meets(in, hold(in, s, "Progressing", "CanaryProgressing",
                              p.initialDelay + p.window - s.availableSince))
    <2> DEFINE q == p.initialDelay + p.window - s.availableSince
    <2>1. q \in Nat /\ q > 0
      BY <1>2, <1>3, <1>9 DEF Warm, Ages, NoTime
    <2> HIDE DEF q
    <2>2. Meets(in, hold(in, s, "Progressing", "CanaryProgressing", q))
      BY <2>1, ReasonNames, holdMeets, Zenon
    <2>3. QED
      BY <2>2, Zenon DEF q
  <1>10. Meets(in, hold(in, s, "Progressing", "CanaryProgressing", nextAnalysisIn(p, s)))
    <2> DEFINE q == nextAnalysisIn(p, s)
    <2>1. q \in Nat /\ q > 0
      BY <1>2, <1>3 DEF nextAnalysisIn, Ages, NoTime
    <2> HIDE DEF q
    <2>2. Meets(in, hold(in, s, "Progressing", "CanaryProgressing", q))
      BY <2>1, ReasonNames, holdMeets, Zenon
    <2>3. QED
      BY <2>2, Zenon DEF q
  <1>11. ASSUME in.round # NoRound, splitFor(in, w).canary # 0
         PROVE  Meets(in, judge(in, t))
    <2>1. in.round \in Verdicts
      BY <1>2, <1>11, Zenon
    <2>2. InFlight(in, t) /\ t.step = s.step
      BY <2>1, applyTyped, Zenon DEF t
    <2>3. splitFor(in, currentWeight(in.plan, t)).canary > 0
      BY <1>5, <1>11, <2>2 DEF currentWeight, w
    <2>4. QED
      BY <2>1, <2>2, <2>3, judgeMeets, Zenon
  <1>12. QED
    BY <1>6, <1>7, <1>8, <1>9, <1>10, <1>11, Zenon DEF analyse, p, w, t
-----------------------------------------------------------------------------
(* Observe and Next. *)

Fallback(in) == isActive(in.state.phase) => InFlight(in, in.state)

(* Observe changes nothing but the state and the round, and a canary it    *)
(* leaves Paused has a pod.                                                *)
Observed(in, o) ==
  /\ o \in InputType /\ Fallback(o)
  /\ o.plan = in.plan /\ o.target = in.target /\ o.stable = in.stable
  /\ o.total = in.total /\ o.aborted = in.aborted
  /\ o.state.revision = in.state.revision /\ o.state.failed = in.state.failed
  /\ (o.state.phase = "Paused" /\ o.state.revision = o.target)
       => splitFor(o, currentWeight(o.plan, o.state)).canary > 0

LEMMA ReadinessTyped ==
  ASSUME NEW in \in InputType
  PROVE  /\ ReadinessTarget(in) \in ReadinessType
         /\ ReadinessTarget(in).canary
              = splitFor(in, currentWeight(in.plan, in.state)).canary
         /\ ReadinessTarget(in).canary \in Nat
  <1> DEFINE w == currentWeight(in.plan, in.state)
             c == splitFor(in, w).canary
  <1>1. /\ in.plan \in PlanType /\ in.state.step \in Nat /\ in.total \in Nat
        /\ in.dep.generation \in AnyGeneration /\ in.dep.uid \in AnyUID
    BY Zenon DEF InputType, MachineState, DeploymentType
  <1>2. w \in Nat
    BY <1>1, WeightTyped, Zenon DEF currentWeight
  <1>3. c \in Nat
    BY <1>1, <1>2, SplitBounds, Zenon DEF splitFor
  <1> HIDE DEF c, w
  <1>4. ReadinessTarget(in) =
          [step |-> in.state.step, weight |-> w, total |-> in.total, canary |-> c,
           generation |-> in.dep.generation, uid |-> in.dep.uid]
    BY Zenon DEF ReadinessTarget, w, c
  <1>5. QED
    BY <1>1, <1>2, <1>3, <1>4 DEF ReadinessType, c, w

LEMMA ObserveObserved ==
  ASSUME NEW in \in InputType, Fallback(in)
  PROVE  Observed(in, Observe(in))
  <1> DEFINE s == in.state
             new == ReadinessTarget(in)
             ready == IsReady(in)
             scoped == s.scopeReady /\ s.readiness.uid \in {NoUID, new.uid}
  <1>1. s \in MachineState /\ NoRound \in Verdicts \cup {NoRound}
    BY Zenon DEF InputType
  <1>2. CASE ~isActive(s.phase) \/ s.revision # in.target
    <2>1. Observe(in) = in
      BY <1>2, Zenon DEF Observe
    <2>2. ~(s.phase = "Paused" /\ s.revision = in.target)
      BY <1>2, Zenon DEF isActive
    <2>3. QED
      BY <2>1, <2>2, Zenon DEF Observed
  <1>3. CASE isActive(s.phase) /\ s.revision = in.target /\ (new # s.readiness \/ ~ready)
    <2> DEFINE t == [s EXCEPT !.scopeReady = scoped, !.readiness = new,
                              !.availableSince = IF ready THEN 0 ELSE NoTime,
                              !.lastAnalysis = NoTime, !.consecErr = 0,
                              !.consecInconcl = 0, !.phase = "Waiting"]
               o == [in EXCEPT !.round = NoRound, !.state = t]
    <2>1. Observe(in) = o
      BY <1>3, Zenon DEF Observe
    <2>2. /\ new \in ReadinessType /\ 0 \in Ages /\ NoTime \in Ages /\ scoped \in BOOLEAN
          /\ "Waiting" \in Phases \cup {"Waiting"} /\ 0 \in Nat
      BY ReadinessTyped, Zenon DEF Ages
    <2> DEFINE a == IF ready THEN 0 ELSE NoTime
    <2>3. a \in Ages
      BY <2>2, Zenon
    <2> HIDE DEF new, scoped, ready, a
    <2>4. /\ t \in MachineState /\ t.stable = s.stable /\ t.revision = s.revision
          /\ t.phase = "Waiting" /\ t.failed = s.failed
      <3>1. t = [s EXCEPT !.scopeReady = scoped, !.readiness = new, !.availableSince = a,
                          !.lastAnalysis = NoTime, !.consecErr = 0,
                          !.consecInconcl = 0, !.phase = "Waiting"]
        BY Zenon DEF a
      <3>2. QED
        BY <1>1, <2>2, <2>3, <3>1, Zenon DEF MachineState
    <2> HIDE DEF t
    <2>5. /\ o \in InputType /\ o.state = t /\ o.plan = in.plan /\ o.target = in.target
          /\ o.stable = in.stable /\ o.total = in.total /\ o.aborted = in.aborted
      BY <1>1, <2>4, Zenon DEF InputType
    <2> HIDE DEF o
    <2>6. InFlight(in, s)
      BY <1>3, Zenon DEF Fallback
    <2>7. QED
      BY <2>1, <2>4, <2>5, <2>6, Zenon DEF Observed, Fallback, InFlight
  <1>4. CASE isActive(s.phase) /\ s.revision = in.target /\ new = s.readiness /\ ready
    <2> DEFINE a == IF s.availableSince = NoTime THEN 0 ELSE s.availableSince
               t == [s EXCEPT !.availableSince = a]
               o == [in EXCEPT !.state = t]
    <2>1. Observe(in) = o
      <3>1. Observe(in) = [in EXCEPT !.state.availableSince = IF @ = NoTime THEN 0 ELSE @]
        BY <1>4, Zenon DEF Observe
      <3>2. QED
        BY <3>1, Zenon
    <2>2. a \in Ages
      BY <1>1, Zenon DEF MachineState, Ages
    <2> HIDE DEF a
    <2>3. /\ t \in MachineState /\ t.stable = s.stable /\ t.revision = s.revision
          /\ t.phase = s.phase /\ t.step = s.step /\ t.failed = s.failed
      BY <1>1, <2>2, Zenon DEF MachineState
    <2> HIDE DEF t
    <2>4. /\ o \in InputType /\ o.state = t /\ o.plan = in.plan /\ o.target = in.target
          /\ o.stable = in.stable /\ o.total = in.total /\ o.aborted = in.aborted
      BY <1>1, <2>3, Zenon DEF InputType
    <2> HIDE DEF o
    <2>5. InFlight(in, s)
      BY <1>4, Zenon DEF Fallback
    <2>6. splitFor(in, currentWeight(in.plan, s)).canary > 0
      BY <1>4, ReadinessTyped, Zenon DEF IsReady
    <2>7. splitFor(o, currentWeight(o.plan, o.state)).canary > 0
      BY <2>3, <2>4, <2>6, Zenon DEF splitFor, currentWeight
    <2>8. QED
      BY <2>1, <2>3, <2>4, <2>5, <2>7, Zenon DEF Observed, Fallback, InFlight
  <1>5. QED
    BY <1>2, <1>3, <1>4, Zenon

(* Every decision of the state machine meets its contract.                 *)
LEMMA NextMeets ==
  ASSUME NEW input \in InputType, Fallback(input)
  PROVE  Meets(input, NextPosition(input))
  <1> DEFINE in == Observe(input)
             s  == in.state
  <1>1. Observed(input, in)
    BY ObserveObserved, Zenon
  <1> HIDE DEF in
  <1>2. /\ in \in InputType /\ Fallback(in) /\ s \in MachineState
        /\ in.stable = input.stable /\ in.state.failed = input.state.failed
    BY <1>1, Zenon DEF Observed, InputType
  <1>3. ASSUME NEW out, Meets(in, out) PROVE Meets(input, out)
    BY <1>2, <1>3, Zenon DEF Meets, InFlight
  <1>4. CASE in.aborted /\ isActive(s.phase)
    <2>1. NextPosition(input) = rollback(in, s, "CanaryAborted")
      BY <1>4, Zenon DEF NextPosition, Dispatch, in
    <2>2. QED
      BY <1>2, <1>3, <2>1, ReasonNames, rollbackMeets, Zenon
  <1>5. CASE ~in.aborted /\ isActive(s.phase)
    <2>1. InFlight(in, s)
      BY <1>2, <1>5, Zenon DEF Fallback
    <2>2. CASE s.revision # in.target
      <3>1. NextPosition(input) = startOrHold(in)
        BY <1>5, <2>2, Zenon DEF NextPosition, Dispatch, in
      <3>2. QED
        BY <1>2, <1>3, <2>1, <3>1, StartOrHoldMeets, Zenon DEF InFlight
    <2>3. CASE s.revision = in.target /\ s.phase = "Paused"
      <3>1. NextPosition(input) = paused(in, s)
        BY <1>5, <2>3, Zenon DEF NextPosition, Dispatch, in
      <3>2. splitFor(in, currentWeight(in.plan, s)).canary > 0
        BY <1>1, <2>3, Zenon DEF Observed
      <3>3. QED
        BY <1>2, <1>3, <2>1, <3>1, <3>2, pausedMeets, Zenon
    <2>4. CASE s.revision = in.target /\ s.phase # "Paused"
      <3>1. NextPosition(input) = analyse(in, s)
        BY <1>5, <2>4, Zenon DEF NextPosition, Dispatch, isActive, in
      <3>2. QED
        BY <1>2, <1>3, <2>1, <3>1, analyseMeets, Zenon
    <2>5. QED
      BY <2>2, <2>3, <2>4, Zenon
  <1>6. CASE ~isActive(s.phase)
    <2>1. s.phase \in {"Idle", "Promoting", "RollingBack"}
      BY <1>2, <1>6, Zenon DEF MachineState, Phases, isActive
    <2>2. NextPosition(input) = IF s.phase = "Promoting" THEN promoting(in, s) ELSE begin(in)
      BY <1>6, <2>1, Zenon DEF NextPosition, Dispatch, in
    <2>3. QED
      BY <1>2, <1>3, <2>2, promotingMeets, beginMeets, Zenon
  <1>7. QED
    BY <1>4, <1>5, <1>6, Zenon
-----------------------------------------------------------------------------
(* One pass. *)

(* Some check of a round is its most alarming one.                         *)
LEMMA WorstCheck ==
  ASSUME NEW checks \in SUBSET Verdicts, checks # {}
  PROVE  \E v \in checks : \A w \in checks : rank(w) <= rank(v)
  <1>1. \A w \in checks : w \in {"Pass", "Inconclusive", "Fail", "Error"}
    BY Zenon DEF Verdicts
  <1>2. /\ rank("Pass") = 0 /\ rank("Inconclusive") = 1
        /\ rank("Fail") = 2 /\ rank("Error") = 3
    BY Zenon DEF rank
  <1>3. CASE "Error" \in checks
    <2>1. \A w \in checks : rank(w) <= rank("Error")
      BY <1>1, <1>2
    <2>2. QED
      BY <1>3, <2>1, Zenon
  <1>4. CASE "Error" \notin checks /\ "Fail" \in checks
    <2>1. \A w \in checks : rank(w) <= rank("Fail")
      BY <1>1, <1>2, <1>4
    <2>2. QED
      BY <1>4, <2>1, Zenon
  <1>5. CASE "Error" \notin checks /\ "Fail" \notin checks /\ "Inconclusive" \in checks
    <2>1. \A w \in checks : rank(w) <= rank("Inconclusive")
      BY <1>1, <1>2, <1>5
    <2>2. QED
      BY <1>5, <2>1, Zenon
  <1>6. CASE checks = {"Pass"}
    <2>1. "Pass" \in checks /\ \A w \in checks : rank(w) <= rank("Pass")
      BY <1>2, <1>6
    <2>2. QED
      BY <2>1, Zenon
  <1>7. QED
    BY <1>1, <1>3, <1>4, <1>5, <1>6, Zenon

LEMMA AggregateTyped ==
  ASSUME NEW checks \in SUBSET Verdicts
  PROVE  Aggregate(checks) \in Verdicts
  <1>1. CASE checks = {}
    BY <1>1, Zenon DEF Aggregate, Verdicts
  <1>2. CASE checks # {}
    <2>1. \E v \in checks : \A w \in checks : rank(w) <= rank(v)
      BY <1>2, WorstCheck, Zenon
    <2>2. Aggregate(checks) \in checks
      BY <1>2, <2>1, Zenon DEF Aggregate
    <2>3. QED
      BY <2>2, Zenon
  <1>3. QED
    BY <1>1, <1>2, Zenon

LEMMA DecideMeets ==
  ASSUME NEW in \in InputType, Fallback(in), NEW scoped \in BOOLEAN,
         NEW checks \in SUBSET Verdicts
  PROVE  Meets(in, Decide(in, scoped, checks))
  <1> DEFINE seen  == Observe(in)
             v     == Aggregate(checks)
             asked == [seen EXCEPT !.state.scopeReady = TRUE, !.round = v]
             out   == NextPosition(seen)
             held  == [out EXCEPT !.reason = "MetricsScopePending",
                                  !.requeue = soonest(@, in.plan.interval)]
  <1>1. Observed(in, seen) /\ v \in Verdicts
    BY ObserveObserved, AggregateTyped, Zenon
  <1> HIDE DEF seen, v
  <1>2. /\ seen \in InputType /\ Fallback(seen)
        /\ seen.stable = in.stable /\ seen.state.failed = in.state.failed
    BY <1>1, Zenon DEF Observed
  <1>3. ASSUME NEW x, Meets(seen, x) PROVE Meets(in, x)
    BY <1>2, <1>3, Zenon DEF Meets, InFlight
  <1>4. Meets(in, out)
    BY <1>2, <1>3, NextMeets, Zenon
  <1>5. Meets(in, NextPosition(asked))
    <2> DEFINE t == [seen.state EXCEPT !.scopeReady = TRUE]
               o == [seen EXCEPT !.state = t, !.round = v]
    <2>1. seen.state \in MachineState /\ v \in Verdicts \cup {NoRound}
      BY <1>1, <1>2, Zenon DEF InputType
    <2>2. asked = o
      BY <1>2, Zenon DEF InputType
    <2>3. /\ t \in MachineState /\ t.phase = seen.state.phase
          /\ t.stable = seen.state.stable /\ t.revision = seen.state.revision
          /\ t.failed = seen.state.failed
      BY <2>1, Zenon DEF MachineState
    <2> HIDE DEF t
    <2>4. o \in InputType /\ o.state = t /\ o.stable = seen.stable
      BY <1>2, <2>1, <2>3, Zenon DEF InputType
    <2> HIDE DEF o
    <2>5. Fallback(o)
      BY <1>2, <2>3, <2>4, Zenon DEF Fallback, InFlight
    <2>6. Meets(o, NextPosition(o))
      BY <2>4, <2>5, NextMeets, Zenon
    <2>7. Meets(in, NextPosition(o))
      BY <1>2, <2>3, <2>4, <2>6, Zenon DEF Meets, InFlight
    <2>8. QED
      BY <2>2, <2>7, Zenon
  <1>6. Meets(in, held)
    <2> DEFINE q == soonest(out.requeue, in.plan.interval)
               o == [out EXCEPT !.reason = "MetricsScopePending", !.requeue = q]
    <2> HIDE DEF out
    <2>1. in.plan.interval \in Nat /\ in.plan.interval > 0
      BY DEF InputType, PlanType
    <2>2. out \in OutputType /\ out.requeue \in Nat
      BY <1>4, Zenon DEF Meets, OutputType
    <2>3. q \in Nat /\ q > 0
      BY <2>1, <2>2 DEF soonest
    <2>4. held = o
      BY <2>2, Zenon DEF OutputType
    <2> HIDE DEF q
    <2>5. /\ o \in OutputType /\ o.action = out.action /\ o.state = out.state
          /\ o.canary = out.canary /\ o.requeue = q
      BY <2>2, <2>3, ReasonNames, Zenon DEF OutputType
    <2> HIDE DEF o
    <2>6. Meets(in, o)
      BY <1>4, <2>3, <2>5, Zenon DEF Meets
    <2>7. QED
      BY <2>4, <2>6, Zenon
  <1> HIDE DEF asked, held, out
  <1>7. QED
    BY <1>4, <1>5, <1>6, Zenon DEF Decide, asked, held, out, seen, v
ResultType ==
  [out : OutputType, primaryRevision : Revs, canaryRevision : Revs,
   primaryReplicas : Nat, canaryReplicas : Nat, active : BOOLEAN,
   rolledBack : BOOLEAN]

(* What planRollout keeps of the machine's contract: while a canary runs,  *)
(* the primary runs the fallback.                                          *)
Planned(in, res) ==
  /\ res \in ResultType
  /\ Meets(in, res.out)
  /\ res.out.action \in {"Start", "Advance", "Wait", "Pause"}
       => res.primaryRevision = in.stable /\ res.active

LEMMA planCanaryPlanned ==
  ASSUME NEW in \in InputType, NEW out, Meets(in, out)
  PROVE  Planned(in, planCanary(in, out))
  <1> DEFINE res    == planCanary(in, out)
             active == out.action \in {"Start", "Advance", "Wait", "Pause"}
  <1>1. /\ out \in OutputType /\ out.action \in Actions /\ out.state.revision \in Revs
        /\ out.state.stable \in Revs /\ out.primary \in Nat /\ out.canary \in Nat
    BY Zenon DEF Meets, OutputType, MachineState
  <1>2. in.stable \in Revs /\ in.target \in Revs /\ NoRevision \in Revs
    BY Zenon DEF InputType, Revs
  <1>3. active => /\ in.stable # NoRevision /\ out.state.revision # NoRevision
    BY NameAssumption, Zenon DEF Meets, InFlight
  <1>4. res.primaryRevision \in Revs /\ res.canaryRevision \in Revs
    BY <1>1, <1>2, Zenon DEF planCanary, firstNonEmpty, Actions
  <1>5. active => res.primaryRevision = in.stable /\ res.active
    BY <1>3, Zenon DEF planCanary, firstNonEmpty
  <1>6. res \in ResultType /\ res.out = out
    BY <1>1, <1>4, Zenon DEF planCanary, ResultType
  <1>7. QED
    BY <1>5, <1>6, Zenon DEF Planned

LEMMA RecordFailure ==
  ASSUME NEW in \in InputType, NEW out, Meets(in, out), NEW r \in Revs,
         out.action \notin {"Start", "Advance", "Wait", "Pause"}
  PROVE  LET o == [out EXCEPT !.state.failed = r]
         IN  Meets(in, o) /\ o.action = out.action
  <1> DEFINE t == [out.state EXCEPT !.failed = r]
             o == [out EXCEPT !.state = t]
  <1>1. out \in OutputType /\ out.state \in MachineState
    BY Zenon DEF Meets, OutputType
  <1>2. [out EXCEPT !.state.failed = r] = o
    BY <1>1, Zenon DEF OutputType
  <1>3. t \in MachineState
    BY <1>1, Zenon DEF MachineState
  <1> HIDE DEF t
  <1>4. /\ o \in OutputType /\ o.action = out.action /\ o.requeue = out.requeue
        /\ o.canary = out.canary
    BY <1>1, <1>3, Zenon DEF OutputType
  <1> HIDE DEF o
  <1>5. QED
    BY <1>2, <1>4, Zenon DEF Meets

LEMMA holdRejectedPlanned ==
  ASSUME NEW in \in InputType, NEW res, Planned(in, res)
  PROVE  Planned(in, holdRejectedRevision(in, res))
  <1> DEFINE r  == firstNonEmpty(res.out.state.failed, in.state.failed)
             o  == [res.out EXCEPT !.state.failed = r]
             h  == [res EXCEPT !.primaryRevision = in.stable, !.primaryReplicas = in.total,
                               !.canaryRevision = NoRevision, !.canaryReplicas = 0,
                               !.rolledBack = TRUE, !.out = o]
  <1>1. /\ res \in ResultType /\ Meets(in, res.out) /\ res.out.state.failed \in Revs
        /\ in.stable \in Revs /\ in.total \in Nat /\ in.state.failed \in Revs
        /\ NoRevision \in Revs
    BY Zenon DEF Planned, ResultType, OutputType, MachineState, InputType, Revs
  <1>2. CASE holdRejectedRevision(in, res) = res
    BY <1>2, Zenon
  <1>3. CASE holdRejectedRevision(in, res) # res
    <2>1. ~res.active /\ holdRejectedRevision(in, res) =
            [res EXCEPT !.primaryRevision = in.stable, !.primaryReplicas = in.total,
                        !.canaryRevision = NoRevision, !.canaryReplicas = 0,
                        !.rolledBack = TRUE, !.out.state.failed = r]
      BY <1>3, Zenon DEF holdRejectedRevision
    <2>2. holdRejectedRevision(in, res) = h
      BY <1>1, <2>1, Zenon DEF ResultType
    <2>3. res.out.action \notin {"Start", "Advance", "Wait", "Pause"} /\ r \in Revs
      BY <1>1, <2>1, Zenon DEF Planned, firstNonEmpty
    <2> HIDE DEF r
    <2>4. Meets(in, o) /\ o.action = res.out.action
      BY <1>1, <2>3, RecordFailure, Zenon
    <2>5. o \in OutputType
      BY <2>4, Zenon DEF Meets
    <2> HIDE DEF o
    <2>6. h \in ResultType /\ h.out = o
      BY <1>1, <2>5, Zenon DEF ResultType
    <2> HIDE DEF h
    <2>7. QED
      BY <2>2, <2>3, <2>4, <2>6, Zenon DEF Planned
  <1>4. QED
    BY <1>2, <1>3, Zenon

LEMMA guardPlanned ==
  ASSUME NEW in \in InputType, NEW res, Planned(in, res), NEW auto, NEW stalled
  PROVE  Planned(in, guardAgainstStall(in, res, auto, stalled))
  <1> DEFINE r  == res.primaryRevision
             o  == [res.out EXCEPT !.state.failed = r]
             h  == [res EXCEPT !.primaryRevision = in.stable,
                               !.canaryRevision = NoRevision, !.canaryReplicas = 0,
                               !.rolledBack = TRUE, !.out = o]
  <1>1. /\ res \in ResultType /\ Meets(in, res.out) /\ r \in Revs
        /\ in.stable \in Revs /\ NoRevision \in Revs
    BY Zenon DEF Planned, ResultType, InputType, Revs
  <1>2. CASE guardAgainstStall(in, res, auto, stalled) = res
    BY <1>2, Zenon
  <1>3. CASE guardAgainstStall(in, res, auto, stalled) # res
    <2>1. ~res.active /\ guardAgainstStall(in, res, auto, stalled) =
            [res EXCEPT !.primaryRevision = in.stable,
                        !.canaryRevision = NoRevision, !.canaryReplicas = 0,
                        !.rolledBack = TRUE, !.out.state.failed = res.primaryRevision]
      BY <1>3, Zenon DEF guardAgainstStall
    <2>2. guardAgainstStall(in, res, auto, stalled) = h
      BY <1>1, <2>1, Zenon DEF ResultType
    <2>3. res.out.action \notin {"Start", "Advance", "Wait", "Pause"}
      BY <2>1, Zenon DEF Planned
    <2> HIDE DEF r
    <2>4. Meets(in, o) /\ o.action = res.out.action
      BY <1>1, <2>3, RecordFailure, Zenon
    <2>5. o \in OutputType
      BY <2>4, Zenon DEF Meets
    <2> HIDE DEF o
    <2>6. h \in ResultType /\ h.out = o
      BY <1>1, <2>5, Zenon DEF ResultType
    <2> HIDE DEF h
    <2>7. QED
      BY <2>2, <2>3, <2>4, <2>6, Zenon DEF Planned
  <1>4. QED
    BY <1>2, <1>3, Zenon

LEMMA planRolloutPlanned ==
  ASSUME NEW in \in InputType, Fallback(in), NEW scoped \in BOOLEAN,
         NEW checks \in SUBSET Verdicts, NEW stalled
  PROVE  Planned(in, planRollout(in, scoped, checks, stalled))
  <1> DEFINE rolling == Alone(in, EmptyState, "None", "CanaryNotRunning", 0, 0)
             out     == IF in.plan.isCanary THEN Decide(in, scoped, checks) ELSE rolling
  <1>1. Meets(in, rolling)
    <2>1. rolling \in OutputType /\ rolling.action = "None"
      BY EmptyTyped, AloneTyped, ActionNames, ReasonNames
    <2> HIDE DEF rolling
    <2>2. QED
      BY <2>1, Zenon DEF Meets
  <1>2. Meets(in, out)
    BY <1>1, DecideMeets, Zenon
  <1> HIDE DEF out
  <1>3. Planned(in, holdRejectedRevision(in, planCanary(in, out)))
    BY <1>2, planCanaryPlanned, holdRejectedPlanned, Zenon
  <1>4. QED
    BY <1>3, guardPlanned, Zenon DEF planRollout, out

LEMMA PersistedTyped ==
  ASSUME NEW out \in OutputType
  PROVE  /\ Persisted(out) \in StateType
         /\ Persisted(out).phase = PhaseFrom(out.action)
         /\ Persisted(out).stable = out.state.stable
         /\ Persisted(out).revision = out.state.revision
         /\ Persisted(out).failed = out.state.failed
         /\ isActive(Persisted(out).phase)
              <=> out.action \in {"Start", "Advance", "Wait", "Pause"}
         /\ Persisted(out).phase \in {"Progressing", "Promoting"}
              => out.action \in {"Start", "Advance", "Wait", "Promote"}
  <1> DEFINE p == PhaseFrom(out.action)
  <1>1. out.state \in MachineState /\ out.action \in Actions
    BY Zenon DEF OutputType
  <1>2. /\ p \in Phases
        /\ isActive(p) <=> out.action \in {"Start", "Advance", "Wait", "Pause"}
        /\ p \in {"Progressing", "Promoting"}
             => out.action \in {"Start", "Advance", "Wait", "Promote"}
    BY <1>1, Zenon DEF PhaseFrom, Actions, Phases, isActive
  <1> HIDE DEF p
  <1>3. Persisted(out) = [out.state EXCEPT !.phase = p]
    BY Zenon DEF Persisted, p
  <1>4. /\ Persisted(out) \in StateType /\ Persisted(out).phase = p
        /\ Persisted(out).stable = out.state.stable
        /\ Persisted(out).revision = out.state.revision
        /\ Persisted(out).failed = out.state.failed
    BY <1>1, <1>2, <1>3, Zenon DEF MachineState, StateType
  <1>5. QED
    BY <1>2, <1>4, Zenon DEF p

-----------------------------------------------------------------------------
(* Rejection. *)

Running == {"Start", "Advance", "Wait", "Pause"}

(* begin and promoting: an idle machine does not retry what it rejected.   *)
LEMMA NotRetried ==
  ASSUME NEW in \in InputType, ~isActive(in.state.phase), in.state.failed = in.target,
         NEW scoped, NEW checks
  PROVE  Decide(in, scoped, checks).action \notin Running
  <1>1. Observe(in) = in
    BY Zenon DEF Observe
  <1>2. ~RoundDue(in)
    BY <1>1, Zenon DEF RoundDue, DueForAnalysis, isActive
  <1>3. Decide(in, scoped, checks) = NextPosition(in)
    BY <1>1, <1>2, Zenon DEF Decide
  <1>4. in.target # NoRevision
    BY NameAssumption, Zenon DEF InputType
  <1>5. begin(in).action = "None"
    BY <1>4, Zenon DEF begin, Idle, Alone
  <1>6. promoting(in, in.state).action \in {"None", "Promote"}
    BY <1>5, Zenon DEF promoting, Promote, Idle, Alone
  <1>7. in.state.phase \in {"Idle", "RollingBack", "Promoting"}
    BY Zenon DEF InputType, MachineState, Phases, isActive
  <1>8. NextPosition(in) \in {begin(in), promoting(in, in.state)}
    <2> HIDE DEF Observe
    <2>1. CASE in.state.phase = "Promoting"
      BY <1>1, <2>1, Zenon DEF NextPosition, Dispatch, isActive
    <2>2. CASE in.state.phase \in {"Idle", "RollingBack"}
      BY <1>1, <2>2, Zenon DEF NextPosition, Dispatch, isActive
    <2>3. QED
      BY <1>7, <2>1, <2>2, Zenon
  <1>9. QED
    BY <1>3, <1>5, <1>6, <1>8, Zenon DEF Running

-----------------------------------------------------------------------------
(* What the two guards of planRollout leave of the plan. *)

Plan0(in, scoped, checks) ==
  IF in.plan.isCanary THEN Decide(in, scoped, checks)
  ELSE Alone(in, EmptyState, "None", "CanaryNotRunning", 0, 0)

LEMMA PlanSteps ==
  ASSUME NEW in \in InputType, Fallback(in), NEW scoped \in BOOLEAN,
         NEW checks \in SUBSET Verdicts, NEW stalled
  PROVE  LET o == Plan0(in, scoped, checks)
             p == planCanary(in, o)
             h == holdRejectedRevision(in, p)
         IN  /\ planRollout(in, scoped, checks, stalled)
                  = guardAgainstStall(in, h, in.plan.autoRollback, stalled)
             /\ Meets(in, o) /\ Planned(in, p) /\ Planned(in, h)
             /\ p.out = o /\ ~p.rolledBack
  <1> DEFINE rolling == Alone(in, EmptyState, "None", "CanaryNotRunning", 0, 0)
             o == Plan0(in, scoped, checks)
             p == planCanary(in, o)
  <1>1. Meets(in, rolling)
    <2>1. rolling \in OutputType /\ rolling.action = "None"
      BY EmptyTyped, AloneTyped, ActionNames, ReasonNames
    <2> HIDE DEF rolling
    <2>2. QED
      BY <2>1, Zenon DEF Meets
  <1>2. Meets(in, o)
    BY <1>1, DecideMeets, Zenon DEF Plan0
  <1> HIDE DEF o
  <1>3. p.out = o /\ ~p.rolledBack
    BY Zenon DEF planCanary
  <1>4. Planned(in, p)
    BY <1>2, planCanaryPlanned, Zenon
  <1>5. Planned(in, holdRejectedRevision(in, p))
    BY <1>4, holdRejectedPlanned, Zenon
  <1>6. QED
    BY <1>2, <1>3, <1>4, <1>5, Zenon DEF planRollout, o, Plan0

(* holdRejectedRevision and guardAgainstStall change only a plan without a *)
(* canary, and always to the last good revision.                           *)
LEMMA HoldEffect ==
  ASSUME NEW in \in InputType, NEW res, Planned(in, res)
  PROVE  LET h == holdRejectedRevision(in, res)
         IN  \/ h = res
             \/ /\ res.out.action \notin Running
                /\ in.stable \notin {NoRevision, in.target}
                /\ h.primaryRevision = in.stable /\ h.rolledBack
                /\ h.out.action = res.out.action
  <1> DEFINE r  == firstNonEmpty(res.out.state.failed, in.state.failed)
             h  == holdRejectedRevision(in, res)
  <1>1. res \in ResultType
    BY Zenon DEF Planned
  <1>2. CASE h = res
    BY <1>2, Zenon
  <1>3. CASE h # res
    <2>1. /\ ~res.active /\ in.stable \notin {NoRevision, in.target}
          /\ h = [res EXCEPT !.primaryRevision = in.stable, !.primaryReplicas = in.total,
                             !.canaryRevision = NoRevision, !.canaryReplicas = 0,
                             !.rolledBack = TRUE, !.out.state.failed = r]
      BY <1>3, Zenon DEF holdRejectedRevision
    <2>2. res.out.action \notin Running
      BY <2>1, Zenon DEF Planned, Running
    <2> HIDE DEF r
    <2>3. h.primaryRevision = in.stable /\ h.rolledBack /\ h.out.action = res.out.action
      BY <1>1, <2>1 DEF ResultType, OutputType
    <2>4. QED
      BY <2>1, <2>2, <2>3, Zenon
  <1>4. QED
    BY <1>2, <1>3, Zenon

LEMMA GuardEffect ==
  ASSUME NEW in \in InputType, NEW res, Planned(in, res), NEW auto, NEW stalled
  PROVE  LET g == guardAgainstStall(in, res, auto, stalled)
         IN  \/ g = res
             \/ /\ res.out.action \notin Running /\ ~res.rolledBack
                /\ in.stable # NoRevision
                /\ g.primaryRevision = in.stable /\ g.rolledBack
                /\ g.out.action = res.out.action
  <1> DEFINE g == guardAgainstStall(in, res, auto, stalled)
  <1>1. res \in ResultType
    BY Zenon DEF Planned
  <1>2. CASE g = res
    BY <1>2, Zenon
  <1>3. CASE g # res
    <2>1. /\ ~res.active /\ ~res.rolledBack /\ in.stable # NoRevision
          /\ g = [res EXCEPT !.primaryRevision = in.stable,
                             !.canaryRevision = NoRevision, !.canaryReplicas = 0,
                             !.rolledBack = TRUE, !.out.state.failed = res.primaryRevision]
      BY <1>3, Zenon DEF guardAgainstStall
    <2>2. res.out.action \notin Running
      BY <2>1, Zenon DEF Planned, Running
    <2>3. g.primaryRevision = in.stable /\ g.rolledBack /\ g.out.action = res.out.action
      BY <1>1, <2>1 DEF ResultType, OutputType
    <2>4. QED
      BY <2>1, <2>2, <2>3, Zenon
  <1>4. QED
    BY <1>2, <1>3, Zenon

-----------------------------------------------------------------------------
(* The three facts about one pass. *)

(* A rejected target is not what the primary runs, if anything else is.    *)
LEMMA HeldBack ==
  ASSUME NEW in \in InputType, Fallback(in), NEW scoped \in BOOLEAN,
         NEW checks \in SUBSET Verdicts, NEW stalled,
         LET res == planRollout(in, scoped, checks, stalled)
         IN  res.out.action \notin Running /\ res.out.state.failed = in.target,
         in.stable \notin {NoRevision, in.target}
  PROVE  planRollout(in, scoped, checks, stalled).primaryRevision # in.target
  <1> DEFINE o   == Plan0(in, scoped, checks)
             p   == planCanary(in, o)
             h   == holdRejectedRevision(in, p)
             res == planRollout(in, scoped, checks, stalled)
  <1>1. /\ res = guardAgainstStall(in, h, in.plan.autoRollback, stalled)
        /\ Meets(in, o) /\ Planned(in, p) /\ Planned(in, h)
        /\ p.out = o /\ ~p.rolledBack
    BY PlanSteps
  <1>2. res.out.action \notin Running /\ res.out.state.failed = in.target
    BY Zenon
  <1>3. p.active <=> (o.action \in Running /\ o.state.revision # NoRevision)
    BY Zenon DEF planCanary, Running
  <1> SUFFICES res.primaryRevision # in.target
    BY Zenon
  <1> HIDE DEF o, p, res
  <1>4. CASE res # h
    BY <1>1, <1>4, GuardEffect
  <1>5. CASE res = h /\ h # p
    BY <1>1, <1>5, HoldEffect
  <1>6. CASE res = h /\ h = p
    <2>1. ~p.active
      BY <1>1, <1>2, <1>3, <1>6, Zenon
    <2>2. p.out.state.failed = in.target /\ in.target # NoRevision
      BY <1>2, <1>6, NameAssumption, Zenon DEF InputType
    <2>3. firstNonEmpty(p.out.state.failed, in.state.failed) = in.target
      BY <2>2, Zenon DEF firstNonEmpty
    <2> DEFINE r == firstNonEmpty(p.out.state.failed, in.state.failed)
    <2>4. h = [p EXCEPT !.primaryRevision = in.stable, !.primaryReplicas = in.total,
                        !.canaryRevision = NoRevision, !.canaryReplicas = 0,
                        !.rolledBack = TRUE, !.out.state.failed = r]
      BY <1>1, <2>1, <2>2, <2>3, Zenon DEF holdRejectedRevision
    <2> HIDE DEF r
    <2>5. h.rolledBack
      BY <1>1, <2>4, Zenon DEF Planned, ResultType
    <2>6. QED
      BY <1>1, <1>6, <2>5, Zenon
  <1>7. QED
    BY <1>4, <1>5, <1>6, Zenon

(* Where there is nothing else to run, a pass that holds anything back     *)
(* holds the primary on the target itself.                                 *)
LEMMA BankedTarget ==
  ASSUME NEW in \in InputType, Fallback(in), NEW scoped \in BOOLEAN,
         NEW checks \in SUBSET Verdicts, NEW stalled,
         in.stable \in {NoRevision, in.target},
         planRollout(in, scoped, checks, stalled).rolledBack
  PROVE  planRollout(in, scoped, checks, stalled).primaryRevision = in.target
  <1> DEFINE o   == Plan0(in, scoped, checks)
             p   == planCanary(in, o)
             h   == holdRejectedRevision(in, p)
             res == planRollout(in, scoped, checks, stalled)
  <1>1. /\ res = guardAgainstStall(in, h, in.plan.autoRollback, stalled)
        /\ Planned(in, p) /\ Planned(in, h) /\ ~p.rolledBack
    BY PlanSteps, Zenon
  <1> HIDE DEF o, p
  <1>2. h = p
    BY <1>1, HoldEffect, Zenon
  <1> HIDE DEF h
  <1>3. CASE res # h
    BY <1>1, <1>3, GuardEffect
  <1>4. CASE res = h
    BY <1>1, <1>2, <1>4, Zenon
  <1>5. QED
    BY <1>3, <1>4, Zenon

(* A canary that keeps running leaves the rejection as it was, and none    *)
(* starts for a target already rejected.                                   *)
LEMMA RunningKeeps ==
  ASSUME NEW in \in InputType, Fallback(in), NEW scoped \in BOOLEAN,
         NEW checks \in SUBSET Verdicts, NEW stalled,
         planRollout(in, scoped, checks, stalled).out.action \in Running
  PROVE  /\ planRollout(in, scoped, checks, stalled).out.state.failed = in.state.failed
         /\ in.state.failed = in.target => isActive(in.state.phase)
  <1> DEFINE o   == Plan0(in, scoped, checks)
             p   == planCanary(in, o)
             h   == holdRejectedRevision(in, p)
             res == planRollout(in, scoped, checks, stalled)
  <1>1. /\ res = guardAgainstStall(in, h, in.plan.autoRollback, stalled)
        /\ Meets(in, o) /\ Planned(in, p) /\ Planned(in, h) /\ p.out = o
    BY PlanSteps, Zenon
  <1>2. res.out.action \in Running
    BY Zenon
  <1> HIDE DEF o, p, res
  <1>3. res = h
    BY <1>1, <1>2, GuardEffect
  <1>4. h = p
    BY <1>1, <1>2, <1>3, HoldEffect, Zenon
  <1>5. res.out = o /\ o.action \in Running
    BY <1>1, <1>2, <1>3, <1>4, Zenon
  <1>6. o.state.failed = in.state.failed
    BY <1>1, <1>5, Zenon DEF Meets, InFlight, Running
  <1>7. o = Decide(in, scoped, checks)
    BY <1>5, Zenon DEF o, Plan0, Alone, Running
  <1>8. in.state.failed = in.target => isActive(in.state.phase)
    BY <1>5, <1>7, NotRetried, Zenon
  <1>9. QED
    BY <1>5, <1>6, <1>8, Zenon DEF res

-----------------------------------------------------------------------------
(* What an action is about. *)

Aims(in, out) ==
  /\ out.action \in Running \cup {"Promote"} => out.state.revision = in.target
  /\ out.action = "Promote" => out.state.failed = in.state.failed
  /\ out.action = "Rollback" => /\ isActive(in.state.phase)
                                /\ out.state.stable = in.stable
                                /\ out.state.failed = in.state.revision
  /\ out.action = "None" => out.state.failed \in {in.state.failed, NoRevision}

(* The canary the pass found in flight is s, and it is of the target.      *)
OnTrial(in, s) ==
  /\ isActive(in.state.phase) /\ InFlight(in, s)
  /\ s.revision = in.state.revision /\ s.revision = in.target

-----------------------------------------------------------------------------
(* The outcomes. *)

LEMMA IdleAims ==
  ASSUME NEW in \in InputType, NEW r
  PROVE  Aims(in, Idle(in, r))
  <1>1. EmptyState \in MachineState
    BY EmptyTyped, Zenon
  <1>2. Idle(in, r).action = "None" /\ Idle(in, r).state.failed = in.state.failed
    BY Zenon DEF Idle, Alone, EmptyState
  <1>3. QED
    BY <1>2, Zenon DEF Aims, Running

LEMMA StartAims ==
  ASSUME NEW in \in InputType
  PROVE  /\ Aims(in, capacityHold(in)) /\ Aims(in, start(in))
         /\ Aims(in, startOrHold(in))
  <1>1. capacityHold(in).action = "Wait" /\ capacityHold(in).state.revision = in.target
    BY Zenon DEF capacityHold, Alone, Fresh, EmptyState
  <1>2. start(in).action = "Start" /\ start(in).state.revision = in.target
    BY Zenon DEF start, Divided, Fresh, EmptyState
  <1>3. Aims(in, capacityHold(in)) /\ Aims(in, start(in))
    BY <1>1, <1>2, Zenon DEF Aims
  <1>4. QED
    BY <1>3, Zenon DEF startOrHold

LEMMA PromoteAims ==
  ASSUME NEW in \in InputType, NEW s \in MachineState,
         s.revision = in.target, s.failed = in.state.failed
  PROVE  Aims(in, Promote(in, s))
  <1>1. /\ Promote(in, s).action = "Promote"
        /\ Promote(in, s).state.revision = s.revision
        /\ Promote(in, s).state.failed = s.failed
    BY Zenon DEF Promote, Alone, MachineState
  <1>2. QED
    BY <1>1, Zenon DEF Aims

LEMMA rollbackAims ==
  ASSUME NEW in \in InputType, NEW s, NEW r, InFlight(in, s),
         isActive(in.state.phase), s.revision = in.state.revision
  PROVE  Aims(in, rollback(in, s, r))
  <1>1. s \in MachineState /\ s.stable = in.stable
    BY Zenon DEF InFlight
  <1>2. /\ rollback(in, s, r).action = "Rollback"
        /\ rollback(in, s, r).state.stable = s.stable
        /\ rollback(in, s, r).state.failed = s.revision
    BY <1>1, Zenon DEF rollback, Alone, MachineState
  <1>3. QED
    BY <1>1, <1>2, Zenon DEF Aims, Running

LEMMA PauseHoldAims ==
  ASSUME NEW in \in InputType, NEW s, OnTrial(in, s)
  PROVE  /\ Aims(in, Pause(in, s))
         /\ \A p, r, q : Aims(in, hold(in, s, p, r, q))
  <1>1. s \in MachineState /\ s.revision = in.target
    BY Zenon DEF OnTrial, InFlight
  <1>2. Pause(in, s).action = "Pause" /\ Pause(in, s).state.revision = in.target
    BY <1>1, Zenon DEF Pause, Divided, MachineState
  <1>3. ASSUME NEW p, NEW r, NEW q PROVE Aims(in, hold(in, s, p, r, q))
    <2>1. /\ hold(in, s, p, r, q).action = "Wait"
          /\ hold(in, s, p, r, q).state.revision = in.target
      BY <1>1, Zenon DEF hold, Divided, MachineState
    <2>2. QED
      BY <2>1, Zenon DEF Aims
  <1>4. QED
    BY <1>2, <1>3, Zenon DEF Aims

LEMMA OnTrialAims ==
  ASSUME NEW in \in InputType, NEW s, OnTrial(in, s)
  PROVE  /\ Aims(in, Promote(in, s)) /\ Aims(in, Pause(in, s))
         /\ \A r : Aims(in, rollback(in, s, r))
         /\ \A p, r, q : Aims(in, hold(in, s, p, r, q))
  <1>1. s \in MachineState /\ s.failed = in.state.failed
    BY Zenon DEF OnTrial, InFlight
  <1>2. Aims(in, Promote(in, s))
    BY <1>1, PromoteAims, Zenon DEF OnTrial
  <1>3. \A r : Aims(in, rollback(in, s, r))
    BY rollbackAims, Zenon DEF OnTrial
  <1>4. QED
    BY <1>2, <1>3, PauseHoldAims, Zenon
-----------------------------------------------------------------------------
(* The handlers. *)

LEMMA beginAims ==
  ASSUME NEW in \in InputType
  PROVE  Aims(in, begin(in))
  <1> DEFINE f == [Fresh(in, "Promoting") EXCEPT !.startedAt = 0]
  <1>1. f \in MachineState
    BY FreshTyped, Zenon DEF Phases
  <1>2. f.revision = in.target /\ f.failed = in.state.failed
    BY Zenon DEF Fresh, EmptyState
  <1> HIDE DEF f
  <1>3. Aims(in, Promote(in, f))
    BY <1>1, <1>2, PromoteAims, Zenon
  <1>4. QED
    BY <1>3, IdleAims, StartAims, Zenon DEF begin, f

LEMMA advanceAims ==
  ASSUME NEW in \in InputType, NEW s, OnTrial(in, s)
  PROVE  Aims(in, advance(in, s))
  <1> DEFINE up == [s EXCEPT !.step = @ + 1, !.phase = "Waiting",
                             !.availableSince = NoTime, !.lastAnalysis = NoTime]
             o  == Divided(in, up, "Advance", "CanaryChecksPassed",
                           currentWeight(in.plan, up), in.plan.interval)
  <1>1. s \in MachineState /\ s.revision = in.target
    BY Zenon DEF OnTrial, InFlight
  <1>2. up.revision = in.target
    BY <1>1, Zenon DEF MachineState
  <1> HIDE DEF up
  <1>3. o.action = "Advance" /\ o.state.revision = in.target
    BY <1>2, Zenon DEF Divided
  <1> HIDE DEF o
  <1>4. Aims(in, o)
    BY <1>3, Zenon DEF Aims
  <1>5. QED
    BY <1>4, OnTrialAims, Zenon DEF advance, o, up

LEMMA judgeAims ==
  ASSUME NEW in \in InputType, NEW s, OnTrial(in, s), in.round \in Verdicts
  PROVE  Aims(in, judge(in, s))
  <1>1. in.plan.onInconclusive \in {"Wait", "Rollback", "Promote"}
    BY Zenon DEF InputType, PlanType
  <1>2. Aims(in, onInconclusive(in, s))
    BY <1>1, OnTrialAims, Zenon DEF onInconclusive
  <1>3. QED
    BY <1>2, OnTrialAims, advanceAims, Zenon DEF judge, Verdicts

LEMMA analyseAims ==
  ASSUME NEW in \in InputType, NEW s, OnTrial(in, s)
  PROVE  Aims(in, analyse(in, s))
  <1> DEFINE t == [apply(s, in.round) EXCEPT !.lastAnalysis = 0]
  <1>1. ASSUME in.round # NoRound PROVE Aims(in, judge(in, t))
    <2>1. in.round \in Verdicts
      BY <1>1, Zenon DEF InputType
    <2>2. InFlight(in, s) /\ s \in MachineState
      BY Zenon DEF OnTrial, InFlight
    <2>3. InFlight(in, t)
      BY <2>1, <2>2, applyTyped, Zenon
    <2>4. t.revision = s.revision
      BY <2>2, Zenon DEF apply, MachineState
    <2> HIDE DEF t
    <2>5. OnTrial(in, t)
      BY <2>3, <2>4, Zenon DEF OnTrial
    <2>6. QED
      BY <2>1, <2>5, judgeAims, Zenon
  <1> HIDE DEF t
  <1>2. Aims(in, capacityHold(in)) /\ Aims(in, start(in))
    BY StartAims, Zenon
  <1>3. QED
    BY <1>1, <1>2, OnTrialAims, Zenon DEF analyse, t

LEMMA ObserveKeepsActive ==
  ASSUME NEW in \in InputType
  PROVE  isActive(Observe(in).state.phase) => isActive(in.state.phase)
  <1>1. CASE ~isActive(in.state.phase)
    BY <1>1, Zenon DEF Observe
  <1>2. QED
    BY <1>1, Zenon

LEMMA NextAims ==
  ASSUME NEW input \in InputType, Fallback(input)
  PROVE  Aims(input, NextPosition(input))
  <1> DEFINE in == Observe(input)
             s  == in.state
  <1>1. Observed(input, in)
    BY ObserveObserved, Zenon
  <1>2. isActive(in.state.phase) => isActive(input.state.phase)
    BY ObserveKeepsActive, Zenon
  <1> HIDE DEF in
  <1>3. /\ in \in InputType /\ Fallback(in) /\ s \in MachineState
        /\ in.stable = input.stable /\ in.target = input.target
        /\ s.failed = input.state.failed /\ s.revision = input.state.revision
    BY <1>1, Zenon DEF Observed, InputType
  <1>4. ASSUME NEW out, Aims(in, out) PROVE Aims(input, out)
    BY <1>2, <1>3, <1>4, Zenon DEF Aims
  <1>5. CASE in.aborted /\ isActive(s.phase)
    <2>1. NextPosition(input) = rollback(in, s, "CanaryAborted")
      BY <1>5, Zenon DEF NextPosition, Dispatch, in
    <2>2. InFlight(in, s)
      BY <1>3, <1>5, Zenon DEF Fallback
    <2>3. QED
      BY <1>3, <1>4, <1>5, <2>1, <2>2, rollbackAims, Zenon
  <1>6. CASE ~in.aborted /\ isActive(s.phase)
    <2>1. CASE s.revision # in.target
      <3>1. NextPosition(input) = startOrHold(in)
        BY <1>6, <2>1, Zenon DEF NextPosition, Dispatch, in
      <3>2. QED
        BY <1>3, <1>4, <3>1, StartAims, Zenon
    <2>2. CASE s.revision = in.target
      <3>1. OnTrial(in, s)
        BY <1>3, <1>6, <2>2, Zenon DEF OnTrial, Fallback
      <3>2. CASE s.phase = "Paused"
        <4>1. NextPosition(input) = paused(in, s)
          BY <1>6, <2>2, <3>2, Zenon DEF NextPosition, Dispatch, in
        <4>2. QED
          BY <1>3, <1>4, <3>1, <4>1, OnTrialAims, Zenon DEF paused
      <3>3. CASE s.phase # "Paused"
        <4>1. NextPosition(input) = analyse(in, s)
          BY <1>6, <2>2, <3>3, Zenon DEF NextPosition, Dispatch, isActive, in
        <4>2. QED
          BY <1>3, <1>4, <3>1, <4>1, analyseAims, Zenon
      <3>4. QED
        BY <3>2, <3>3, Zenon
    <2>3. QED
      BY <2>1, <2>2, Zenon
  <1>7. CASE ~isActive(s.phase)
    <2>1. s.phase \in {"Idle", "Promoting", "RollingBack"}
      BY <1>3, <1>7, Zenon DEF MachineState, Phases, isActive
    <2>2. NextPosition(input) = IF s.phase = "Promoting" THEN promoting(in, s) ELSE begin(in)
      BY <1>7, <2>1, Zenon DEF NextPosition, Dispatch, in
    <2>3. Aims(in, promoting(in, s))
      BY <1>3, beginAims, IdleAims, PromoteAims, Zenon DEF promoting
    <2>4. QED
      BY <1>3, <1>4, <2>2, <2>3, beginAims, Zenon
  <1>8. QED
    BY <1>5, <1>6, <1>7, Zenon

(* A round asked for, or put off because the metrics are not scoped yet,   *)
(* does not change what the pass is about.                                 *)
LEMMA DecideAims ==
  ASSUME NEW in \in InputType, Fallback(in), NEW scoped \in BOOLEAN,
         NEW checks \in SUBSET Verdicts
  PROVE  Aims(in, Decide(in, scoped, checks))
  <1> DEFINE seen  == Observe(in)
             v     == Aggregate(checks)
             asked == [seen EXCEPT !.state.scopeReady = TRUE, !.round = v]
             out   == NextPosition(seen)
             held  == [out EXCEPT !.reason = "MetricsScopePending",
                                  !.requeue = soonest(@, in.plan.interval)]
  <1>1. Observed(in, seen) /\ v \in Verdicts
    BY ObserveObserved, AggregateTyped, Zenon
  <1>2. isActive(seen.state.phase) => isActive(in.state.phase)
    BY ObserveKeepsActive, Zenon
  <1> HIDE DEF seen, v
  <1>3. /\ seen \in InputType /\ Fallback(seen) /\ seen.state \in MachineState
        /\ seen.stable = in.stable /\ seen.target = in.target
        /\ seen.state.failed = in.state.failed /\ seen.state.revision = in.state.revision
    BY <1>1, Zenon DEF Observed, InputType
  <1>4. Aims(in, out)
    <2>1. Aims(seen, out)
      BY <1>3, NextAims, Zenon
    <2>2. QED
      BY <1>2, <1>3, <2>1, Zenon DEF Aims
  <1>5. Aims(in, NextPosition(asked))
    <2> DEFINE t == [seen.state EXCEPT !.scopeReady = TRUE]
               o == [seen EXCEPT !.state = t, !.round = v]
    <2>1. v \in Verdicts \cup {NoRound}
      BY <1>1, Zenon
    <2>2. asked = o
      BY <1>3, Zenon DEF InputType
    <2>3. /\ t \in MachineState /\ t.phase = seen.state.phase
          /\ t.stable = seen.state.stable /\ t.revision = seen.state.revision
          /\ t.failed = seen.state.failed
      BY <1>3, Zenon DEF MachineState
    <2> HIDE DEF t
    <2>4. o \in InputType /\ o.state = t /\ o.stable = seen.stable /\ o.target = seen.target
      BY <1>3, <2>1, <2>3, Zenon DEF InputType
    <2> HIDE DEF o
    <2>5. Fallback(o)
      BY <1>3, <2>3, <2>4, Zenon DEF Fallback, InFlight
    <2>6. Aims(o, NextPosition(o))
      BY <2>4, <2>5, NextAims, Zenon
    <2>7. QED
      BY <1>2, <1>3, <2>2, <2>3, <2>4, <2>6, Zenon DEF Aims
  <1>6. Aims(in, held)
    <2>1. out \in OutputType
      BY <1>3, NextMeets, Zenon DEF Meets
    <2> HIDE DEF out
    <2>2. held.action = out.action /\ held.state = out.state
      BY <2>1, Zenon DEF OutputType
    <2> HIDE DEF held
    <2>3. QED
      BY <1>4, <2>2, Zenon DEF Aims
  <1> HIDE DEF asked, held, out
  <1>7. QED
    BY <1>4, <1>5, <1>6, Zenon DEF Decide, asked, held, out, seen, v

LEMMA PlanAims ==
  ASSUME NEW in \in InputType, Fallback(in), NEW scoped \in BOOLEAN,
         NEW checks \in SUBSET Verdicts
  PROVE  Aims(in, Plan0(in, scoped, checks))
  <1> DEFINE rolling == Alone(in, EmptyState, "None", "CanaryNotRunning", 0, 0)
  <1>1. rolling.action = "None" /\ rolling.state.failed = NoRevision
    BY Zenon DEF Alone, EmptyState
  <1> HIDE DEF rolling
  <1>2. Aims(in, rolling)
    BY <1>1, Zenon DEF Aims, Running
  <1>3. QED
    BY <1>2, DecideAims, Zenon DEF Plan0, rolling

-----------------------------------------------------------------------------
(* What holdRejectedRevision and guardAgainstStall leave: the plan as it   *)
(* was, or one that holds the last good revision and rejects the target.   *)
LEMMA PlanShapes ==
  ASSUME NEW in \in InputType, Fallback(in), NEW scoped \in BOOLEAN,
         NEW checks \in SUBSET Verdicts, NEW stalled
  PROVE  LET o   == Plan0(in, scoped, checks)
             res == planRollout(in, scoped, checks, stalled)
         IN  \/ res = planCanary(in, o)
             \/ /\ res.out.action = o.action /\ res.out.action \notin Running
                /\ in.stable # NoRevision /\ res.primaryRevision = in.stable
                /\ res.out.state.failed = in.target /\ res.canaryRevision = NoRevision
  <1> DEFINE o   == Plan0(in, scoped, checks)
             p   == planCanary(in, o)
             h   == holdRejectedRevision(in, p)
             res == planRollout(in, scoped, checks, stalled)
             r   == firstNonEmpty(p.out.state.failed, in.state.failed)
  <1>1. /\ res = guardAgainstStall(in, h, in.plan.autoRollback, stalled)
        /\ Planned(in, p) /\ Planned(in, h) /\ p.out = o /\ ~p.rolledBack
    BY PlanSteps, Zenon
  <1>2. Aims(in, o)
    BY PlanAims, Zenon
  <1>3. /\ o.action = "None" => p.primaryRevision = in.target
        /\ o.action = "Promote" => p.primaryRevision = o.state.revision
        /\ o.action = "Rollback" => p.primaryRevision =
             firstNonEmpty(o.state.stable, firstNonEmpty(in.stable, in.target))
    BY Zenon DEF planCanary
  <1>4. o \in OutputType /\ p \in ResultType /\ h \in ResultType
    BY <1>1, Zenon DEF Planned, ResultType
  <1> SUFFICES \/ res = p
               \/ /\ res.out.action = o.action /\ res.out.action \notin Running
                  /\ in.stable # NoRevision /\ res.primaryRevision = in.stable
                  /\ res.out.state.failed = in.target /\ res.canaryRevision = NoRevision
    BY Zenon
  <1> HIDE DEF o, p, res
  <1>5. CASE h # p
    <2>1. /\ r = in.target
          /\ h = [p EXCEPT !.primaryRevision = in.stable, !.primaryReplicas = in.total,
                           !.canaryRevision = NoRevision, !.canaryReplicas = 0,
                           !.rolledBack = TRUE, !.out.state.failed = r]
      BY <1>5, Zenon DEF holdRejectedRevision
    <2> HIDE DEF r
    <2>2. h.out.state.failed = in.target /\ h.canaryRevision = NoRevision
      BY <1>4, <2>1 DEF ResultType, OutputType, MachineState
    <2>3. h.rolledBack /\ h.primaryRevision = in.stable /\ h.out.action = o.action
          /\ in.stable # NoRevision /\ h.out.action \notin Running
      BY <1>1, <1>5, HoldEffect, Zenon
    <2> HIDE DEF h
    <2>4. res = h
      BY <1>1, <2>3, GuardEffect
    <2>5. QED
      BY <2>2, <2>3, <2>4, Zenon
  <1>6. CASE h = p /\ res # h
    <2>1. /\ in.stable \notin {NoRevision, p.primaryRevision}
          /\ res = [p EXCEPT !.primaryRevision = in.stable,
                             !.canaryRevision = NoRevision, !.canaryReplicas = 0,
                             !.rolledBack = TRUE, !.out.state.failed = p.primaryRevision]
      BY <1>1, <1>6, Zenon DEF guardAgainstStall
    <2>2. /\ p.out.action \notin Running /\ res.primaryRevision = in.stable
          /\ res.out.action = p.out.action
      BY <1>1, <1>6, GuardEffect
    <2>3. res.out.state.failed = p.primaryRevision /\ res.canaryRevision = NoRevision
      BY <1>4, <2>1, Zenon DEF ResultType, OutputType, MachineState
    <2>4. p.primaryRevision = in.target
      <3>1. o.action \in {"None", "Promote", "Rollback"}
        BY <1>1, <1>4, <2>2, Zenon DEF OutputType, Actions, Running
      <3>2. CASE o.action = "None"
        BY <1>3, <3>2, Zenon
      <3>3. CASE o.action = "Promote"
        BY <1>2, <1>3, <3>3, Zenon DEF Aims
      <3>4. CASE o.action = "Rollback"
        <4>1. o.state.stable = in.stable
          BY <1>2, <3>4, Zenon DEF Aims
        <4>2. p.primaryRevision = firstNonEmpty(o.state.stable, firstNonEmpty(in.stable, in.target))
          BY <1>3, <3>4, Zenon
        <4>3. QED
          BY <2>1, <4>1, <4>2, Zenon DEF firstNonEmpty
      <3>5. QED
        BY <3>1, <3>2, <3>3, <3>4, Zenon
    <2>5. QED
      BY <1>1, <2>1, <2>2, <2>3, <2>4, Zenon
  <1>7. QED
    BY <1>5, <1>6, Zenon

-----------------------------------------------------------------------------
(* Approval and room.  A canary in flight is promoted without a person's   *)
(* approval only if the plan asks for none or promotes on no evidence, it  *)
(* pauses only if the plan asks for approval, and it has a pod wherever    *)
(* every rung has replicas for one.                                        *)

Roomy(weights, total) ==
  total >= 2 /\ weights # << >> /\ \A i \in DOMAIN weights : weights[i] > 0

Gated(in, out) ==
  /\ (out.action = "Promote" /\ isActive(in.state.phase)) =>
       in.approved \/ ~in.plan.requireApproval \/ in.plan.onInconclusive = "Promote"
  /\ out.action = "Pause" => in.plan.requireApproval \/ in.state.phase = "Paused"
  /\ (out.action \in Running /\ Roomy(in.plan.weights, in.total)) => out.canary > 0

LEMMA RoomOnEveryRung ==
  ASSUME NEW in \in InputType, Roomy(in.plan.weights, in.total), NEW n \in Nat
  PROVE  splitFor(in, WeightAt(in.plan.weights, n)).canary > 0
  <1> DEFINE w == WeightAt(in.plan.weights, n)
  <1>1. in.plan \in PlanType /\ in.total \in Nat /\ in.total > 1
    BY DEF InputType, Roomy
  <1>2. in.plan.weights \in Seq(Nat) /\ w \in Nat
    BY <1>1, WeightTyped, Zenon DEF PlanType
  <1>3. w > 0
    BY <1>2 DEF WeightAt, Roomy
  <1> HIDE DEF w
  <1>4. LET s == Split(in.total, w) IN s \in [primary : Nat, canary : Nat] /\ s.canary >= 1
    BY <1>1, <1>2, <1>3, SplitBounds, Zenon
  <1>5. QED
    BY <1>4 DEF splitFor, w

LEMMA ObserveGate ==
  ASSUME NEW in \in InputType
  PROVE  /\ Observe(in).approved = in.approved /\ Observe(in).total = in.total
         /\ Observe(in).plan = in.plan
         /\ Observe(in).state.phase = "Paused" => in.state.phase = "Paused"
         /\ isActive(in.state.phase) => isActive(Observe(in).state.phase)
  BY Zenon DEF Observe, InputType, MachineState, isActive

LEMMA StartGated ==
  ASSUME NEW in \in InputType
  PROVE  /\ Gated(in, start(in)) /\ Gated(in, startOrHold(in))
         /\ Gated(in, begin(in)) \/ isActive(in.state.phase)
  <1>1. Roomy(in.plan.weights, in.total)
          => splitFor(in, WeightAt(in.plan.weights, 0)).canary > 0
    BY RoomOnEveryRung, Zenon
  <1>2. start(in).action = "Start"
        /\ start(in).canary = splitFor(in, WeightAt(in.plan.weights, 0)).canary
    BY Zenon DEF start, Divided
  <1>3. capacityHold(in).action = "Wait"
    BY Zenon DEF capacityHold, Alone
  <1>4. Gated(in, start(in)) /\ Gated(in, startOrHold(in))
    BY <1>1, <1>2, <1>3 DEF startOrHold, Gated
  <1>5. \A r : Idle(in, r).action = "None"
    BY Zenon DEF Idle, Alone
  <1>6. \A s : Promote(in, s).action = "Promote"
    BY Zenon DEF Promote, Alone
  <1>7. Gated(in, begin(in)) \/ isActive(in.state.phase)
    BY <1>4, <1>5, <1>6, Zenon DEF begin, Gated, Running
  <1>8. QED
    BY <1>4, <1>7, Zenon

(* What a canary in flight is divided into has a pod on its rung.          *)
LEMMA HeldGated ==
  ASSUME NEW in \in InputType, NEW s \in MachineState
  PROVE  /\ \A p, r, q : Gated(in, hold(in, s, p, r, q))
         /\ \A r : Gated(in, rollback(in, s, r))
         /\ (in.plan.requireApproval \/ in.state.phase = "Paused") => Gated(in, Pause(in, s))
         /\ (in.approved \/ ~in.plan.requireApproval \/ in.plan.onInconclusive = "Promote")
              => Gated(in, Promote(in, s))
         /\ Gated(in, advance(in, s)) /\ Gated(in, onInconclusive(in, s))
  <1> DEFINE up == [s EXCEPT !.step = @ + 1, !.phase = "Waiting",
                              !.availableSince = NoTime, !.lastAnalysis = NoTime]
             climb == Divided(in, up, "Advance", "CanaryChecksPassed",
                              currentWeight(in.plan, up), in.plan.interval)
  <1>1. s.step \in Nat /\ up.step = s.step + 1 /\ up.step \in Nat
    BY DEF MachineState
  <1> HIDE DEF up
  <1>2. Roomy(in.plan.weights, in.total) =>
          /\ splitFor(in, currentWeight(in.plan, s)).canary > 0
          /\ splitFor(in, currentWeight(in.plan, up)).canary > 0
    BY <1>1, RoomOnEveryRung, Zenon DEF currentWeight
  <1>3. \A p, r, q : /\ hold(in, s, p, r, q).action = "Wait"
                     /\ hold(in, s, p, r, q).canary
                          = splitFor(in, currentWeight(in.plan, s)).canary
    BY Zenon DEF hold, Divided
  <1>4. Pause(in, s).action = "Pause"
        /\ Pause(in, s).canary = splitFor(in, currentWeight(in.plan, s)).canary
    BY Zenon DEF Pause, Divided
  <1>5. climb.action = "Advance"
        /\ climb.canary = splitFor(in, currentWeight(in.plan, up)).canary
    BY Zenon DEF Divided
  <1>6. /\ Promote(in, s).action = "Promote"
        /\ \A r : rollback(in, s, r).action = "Rollback"
    BY Zenon DEF Promote, rollback, Alone
  <1> HIDE DEF climb
  <1>7. \A p, r, q : Gated(in, hold(in, s, p, r, q))
    BY <1>2, <1>3, Zenon DEF Gated
  <1>8. \A r : Gated(in, rollback(in, s, r))
    BY <1>6, Zenon DEF Gated, Running
  <1>9. (in.plan.requireApproval \/ in.state.phase = "Paused") => Gated(in, Pause(in, s))
    BY <1>2, <1>4, Zenon DEF Gated
  <1>10. (in.approved \/ ~in.plan.requireApproval \/ in.plan.onInconclusive = "Promote")
           => Gated(in, Promote(in, s))
    BY <1>6, Zenon DEF Gated, Running
  <1>11. Gated(in, climb)
    BY <1>2, <1>5, Zenon DEF Gated
  <1>12. Gated(in, advance(in, s))
    BY <1>9, <1>10, <1>11, Zenon DEF advance, climb, up
  <1>13. in.plan.onInconclusive \in {"Wait", "Rollback", "Promote"}
    BY Zenon DEF InputType, PlanType
  <1>14. Gated(in, onInconclusive(in, s))
    BY <1>7, <1>8, <1>10, <1>13, Zenon DEF onInconclusive
  <1>15. QED
    BY <1>7, <1>8, <1>9, <1>10, <1>12, <1>14, Zenon

LEMMA AnalyseGated ==
  ASSUME NEW in \in InputType, InFlight(in, in.state)
  PROVE  Gated(in, analyse(in, in.state))
  <1> DEFINE s == in.state
             j  == [apply(s, in.round) EXCEPT !.lastAnalysis = 0]
  <1>1. s \in MachineState /\ in.round \in Verdicts \cup {NoRound} /\ s.step \in Nat
    BY Zenon DEF InputType, MachineState
  <1>2. in.round # NoRound => j \in MachineState
    BY <1>1, applyTyped, Zenon DEF InFlight
  <1>3. /\ \A p, r, q : Gated(in, hold(in, s, p, r, q))
        /\ \A r : Gated(in, rollback(in, s, r))
    BY <1>1, HeldGated, Zenon
  <1>4. capacityHold(in).action = "Wait"
    BY Zenon DEF capacityHold, Alone
  <1>5. splitFor(in, currentWeight(in.plan, s)).canary = 0 => Gated(in, capacityHold(in))
    BY <1>1, <1>4, RoomOnEveryRung DEF currentWeight, Gated
  <1> HIDE DEF j
  <1>6. in.round # NoRound => Gated(in, judge(in, j))
    <2> SUFFICES ASSUME in.round \in Verdicts PROVE Gated(in, judge(in, j))
      BY <1>1, Zenon
    <2>1. /\ \A p, r, q : Gated(in, hold(in, j, p, r, q))
          /\ \A r : Gated(in, rollback(in, j, r))
          /\ Gated(in, advance(in, j)) /\ Gated(in, onInconclusive(in, j))
      BY <1>2, HeldGated, Zenon DEF Verdicts, NoRound
    <2>2. QED
      BY <2>1, Zenon DEF judge, Verdicts
  <1>7. Gated(in, start(in))
    BY StartGated, Zenon
  <1>8. QED
    BY <1>3, <1>5, <1>6, <1>7, Zenon DEF analyse, j

LEMMA NextGated ==
  ASSUME NEW input \in InputType, Fallback(input)
  PROVE  Gated(input, NextPosition(input))
  <1> DEFINE in == Observe(input)
  <1>1. Observed(input, in)
    BY ObserveObserved, Zenon
  <1>2. /\ in.approved = input.approved /\ in.total = input.total /\ in.plan = input.plan
        /\ in.state.phase = "Paused" => input.state.phase = "Paused"
        /\ isActive(input.state.phase) => isActive(in.state.phase)
    BY ObserveGate, Zenon
  <1> HIDE DEF in
  <1>3. in \in InputType /\ in.state \in MachineState
        /\ in.state.phase \in Phases \cup {"Waiting"}
    BY <1>1, Zenon DEF Observed, InputType, MachineState
  <1>4. Gated(in, Dispatch(in, in.state))
    <2>1. Gated(in, startOrHold(in)) /\ (Gated(in, begin(in)) \/ isActive(in.state.phase))
      BY <1>3, StartGated, Zenon
    <2>2. \A r : Gated(in, rollback(in, in.state, r))
      BY <1>3, HeldGated, Zenon
    <2>3. isActive(in.state.phase) => Gated(in, analyse(in, in.state))
      BY <1>1, <1>3, AnalyseGated, Zenon DEF Observed, Fallback
    <2>4. in.state.phase = "Paused" => Gated(in, paused(in, in.state))
      BY <1>3, HeldGated, Zenon DEF paused
    <2>5. in.state.phase = "Promoting" => Gated(in, promoting(in, in.state))
      <3>1. \A r : Idle(in, r).action = "None"
        BY Zenon DEF Idle, Alone
      <3>2. Promote(in, in.state).action = "Promote"
        BY Zenon DEF Promote, Alone
      <3>3. QED
        BY <2>1, <3>1, <3>2, Zenon DEF promoting, Gated, Running, isActive
    <2>6. CASE isActive(in.state.phase) /\ (in.aborted \/ in.state.revision # in.target)
      BY <1>3, <2>2, <2>6, StartGated, Zenon DEF Dispatch
    <2>7. CASE ~(isActive(in.state.phase) /\ (in.aborted \/ in.state.revision # in.target))
      BY <1>3, <2>1, <2>3, <2>4, <2>5, <2>7, Zenon DEF Dispatch, Phases, isActive
    <2>8. QED
      BY <2>6, <2>7, Zenon
  <1>5. QED
    BY <1>2, <1>4, Zenon DEF Gated, NextPosition, in

LEMMA DecideGated ==
  ASSUME NEW in \in InputType, Fallback(in), NEW scoped \in BOOLEAN,
         NEW checks \in SUBSET Verdicts
  PROVE  Gated(in, Decide(in, scoped, checks))
  <1> DEFINE seen  == Observe(in)
             v     == Aggregate(checks)
             asked == [seen EXCEPT !.state.scopeReady = TRUE, !.round = v]
             out   == NextPosition(seen)
             held  == [out EXCEPT !.reason = "MetricsScopePending",
                                  !.requeue = soonest(@, in.plan.interval)]
  <1>1. Observed(in, seen) /\ v \in Verdicts
    BY ObserveObserved, AggregateTyped, Zenon
  <1>2. /\ seen.approved = in.approved /\ seen.total = in.total /\ seen.plan = in.plan
        /\ seen.state.phase = "Paused" => in.state.phase = "Paused"
        /\ isActive(in.state.phase) => isActive(seen.state.phase)
    BY ObserveGate, Zenon
  <1> HIDE DEF seen, v
  <1>3. seen \in InputType /\ Fallback(seen) /\ seen.state \in MachineState
    BY <1>1, Zenon DEF Observed, InputType
  <1>4. Gated(in, out)
    <2>1. Gated(seen, out)
      BY <1>3, NextGated, Zenon
    <2>2. QED
      BY <1>2, <2>1, Zenon DEF Gated
  <1>5. Gated(in, NextPosition(asked))
    <2> DEFINE t == [seen.state EXCEPT !.scopeReady = TRUE]
               o == [seen EXCEPT !.state = t, !.round = v]
    <2>1. v \in Verdicts \cup {NoRound}
      BY <1>1, Zenon
    <2>2. asked = o
      BY <1>3, Zenon DEF InputType
    <2>3. /\ t \in MachineState /\ t.phase = seen.state.phase
          /\ t.stable = seen.state.stable /\ t.revision = seen.state.revision
          /\ t.failed = seen.state.failed
      BY <1>3, Zenon DEF MachineState
    <2> HIDE DEF t
    <2>4. /\ o \in InputType /\ o.state = t /\ o.stable = seen.stable
          /\ o.approved = seen.approved /\ o.total = seen.total /\ o.plan = seen.plan
      BY <1>3, <2>1, <2>3, Zenon DEF InputType
    <2> HIDE DEF o
    <2>5. Fallback(o)
      BY <1>3, <2>3, <2>4, Zenon DEF Fallback, InFlight
    <2>6. Gated(o, NextPosition(o))
      BY <2>4, <2>5, NextGated, Zenon
    <2>7. QED
      BY <1>2, <2>2, <2>3, <2>4, <2>6, Zenon DEF Gated
  <1>6. Gated(in, held)
    <2>1. out \in OutputType
      BY <1>3, NextMeets, Zenon DEF Meets
    <2> HIDE DEF out
    <2>2. held.action = out.action /\ held.canary = out.canary
      BY <2>1, Zenon DEF OutputType
    <2> HIDE DEF held
    <2>3. QED
      BY <1>4, <2>2, Zenon DEF Gated
  <1> HIDE DEF asked, held, out
  <1>7. QED
    BY <1>4, <1>5, <1>6, Zenon DEF Decide, asked, held, out, seen, v

-----------------------------------------------------------------------------
(* Everything one pass promises of what it makes run. *)

Verdict(in, res) ==
  /\ Planned(in, res)
  /\ res.primaryRevision \in {in.stable, in.target} \ {NoRevision}
  /\ (res.rolledBack \/ res.out.action = "Rollback") =>
       res.primaryRevision = in.stable /\ res.out.action \notin Running
  /\ (/\ ~isActive(in.state.phase) /\ in.state.failed = in.target
      /\ in.stable \notin {NoRevision, in.target}) =>
       /\ res.out.action \notin Running /\ res.out.state.failed = in.target
       /\ res.primaryRevision # in.target
  /\ (res.out.action = "Promote" /\ isActive(in.state.phase)) =>
       in.approved \/ ~in.plan.requireApproval \/ in.plan.onInconclusive = "Promote"
  /\ res.out.action = "Pause" => in.plan.requireApproval \/ in.state.phase = "Paused"
  /\ res.out.action \in Running =>
       /\ res.canaryRevision = in.target /\ res.out.state.revision = in.target
       /\ Roomy(in.plan.weights, in.total) => res.canaryReplicas > 0
  /\ res.out.action \notin Running => res.canaryRevision = NoRevision

LEMMA PassVerdict ==
  ASSUME NEW in \in InputType, Fallback(in), NEW scoped \in BOOLEAN,
         NEW checks \in SUBSET Verdicts, NEW stalled
  PROVE  Verdict(in, planRollout(in, scoped, checks, stalled))
  <1> DEFINE o   == Plan0(in, scoped, checks)
             p   == planCanary(in, o)
             h   == holdRejectedRevision(in, p)
             res == planRollout(in, scoped, checks, stalled)
  <1>1. /\ \/ res = p
           \/ /\ res.out.action = o.action /\ res.out.action \notin Running
              /\ in.stable # NoRevision /\ res.primaryRevision = in.stable
              /\ res.out.state.failed = in.target /\ res.canaryRevision = NoRevision
        /\ Planned(in, res) /\ Aims(in, o) /\ Meets(in, o) /\ p.out = o /\ ~p.rolledBack
        /\ p \in ResultType /\ o \in OutputType
        /\ res = guardAgainstStall(in, h, in.plan.autoRollback, stalled)
    <2>1. \/ res = p
          \/ /\ res.out.action = o.action /\ res.out.action \notin Running
             /\ in.stable # NoRevision /\ res.primaryRevision = in.stable
             /\ res.out.state.failed = in.target /\ res.canaryRevision = NoRevision
      BY PlanShapes, ZenonT(30)
    <2>2. /\ res = guardAgainstStall(in, h, in.plan.autoRollback, stalled)
          /\ Meets(in, o) /\ Planned(in, p) /\ Planned(in, h)
          /\ p.out = o /\ ~p.rolledBack
      BY PlanSteps, Zenon
    <2>3. Planned(in, res) /\ Aims(in, o)
      BY PlanAims, planRolloutPlanned, Zenon
    <2>4. p \in ResultType /\ o \in OutputType
      <3> HIDE DEF o, p, h, res
      <3>1. QED
        BY <2>2, Zenon DEF Meets, Planned
    <2> HIDE DEF o, p, h, res
    <2>5. QED
      BY <2>1, <2>2, <2>3, <2>4, Zenon
  <1>2. Gated(in, o)
    <2>1. CASE in.plan.isCanary
      BY <2>1, DecideGated, Zenon DEF Plan0
    <2>2. CASE ~in.plan.isCanary
      BY <2>2, Zenon DEF Plan0, Alone, Gated, Running
    <2>3. QED
      BY <2>1, <2>2, Zenon
  <1>3. res.out.action \in Running =>
          /\ res.out.state.failed = in.state.failed
          /\ in.state.failed = in.target => isActive(in.state.phase)
    BY RunningKeeps
  <1>4. (/\ res.out.action \notin Running /\ res.out.state.failed = in.target
         /\ in.stable \notin {NoRevision, in.target}) => res.primaryRevision # in.target
    BY HeldBack, Zenon
  <1>5. /\ o.action = "None" => p.primaryRevision = in.target
        /\ o.action = "Promote" => p.primaryRevision = o.state.revision
        /\ o.action = "Rollback" => p.primaryRevision =
             firstNonEmpty(o.state.stable, firstNonEmpty(in.stable, in.target))
        /\ p.canaryRevision = IF o.action \in Running THEN o.state.revision ELSE NoRevision
        /\ p.canaryReplicas = o.canary
        /\ p.active => o.action \in Running
    BY Zenon DEF planCanary, Running
  <1>6. /\ in.target \in Revisions /\ in.target # NoRevision
        /\ isActive(in.state.phase) => in.stable # NoRevision
    BY NameAssumption, Zenon DEF InputType, Fallback, InFlight
  <1> SUFFICES Verdict(in, res)
    BY Zenon
  <1> HIDE DEF o, p, h, res
  <1>7. CASE res # p
    BY <1>1, <1>2, <1>4, <1>6, <1>7, Zenon DEF Verdict, Gated, Running
  <1>8. CASE res = p
    <2>1. res.primaryRevision \in {in.stable, in.target} \ {NoRevision}
      <3>1. o.action \in {"None", "Promote", "Rollback"} \/ o.action \in Running
        BY <1>1, Zenon DEF OutputType, Actions, Running
      <3>2. CASE o.action \in Running
        BY <1>1, <1>8, <3>2, Zenon DEF Planned, Meets, InFlight, Running
      <3>3. CASE o.action \in {"None", "Promote"}
        BY <1>1, <1>5, <1>6, <1>8, <3>3, Zenon DEF Aims
      <3>4. CASE o.action = "Rollback"
        BY <1>1, <1>5, <1>6, <1>8, <3>4, Zenon DEF Aims, firstNonEmpty
      <3>5. QED
        BY <3>1, <3>2, <3>3, <3>4, Zenon
    <2>2. o.action = "Rollback" => res.primaryRevision = in.stable
      BY <1>1, <1>5, <1>6, <1>8, Zenon DEF Aims, firstNonEmpty
    <2>3. ASSUME ~isActive(in.state.phase), in.state.failed = in.target,
                 in.stable \notin {NoRevision, in.target}
          PROVE  o.action \notin Running /\ o.state.failed = in.target
      <3>1. o.action \in {"None", "Promote"}
        BY <1>1, <1>3, <1>8, <2>3, Zenon DEF Aims, OutputType, Actions, Running
      <3>2. o.state.failed \in {in.target, NoRevision}
        BY <1>1, <2>3, <3>1, Zenon DEF Aims
      <3>3. ASSUME o.state.failed = NoRevision PROVE FALSE
        <4>1. ~p.active /\ firstNonEmpty(p.out.state.failed, in.state.failed) = in.target
          BY <1>1, <1>5, <2>3, <3>1, <3>3, Zenon DEF firstNonEmpty, Running
        <4> DEFINE r == firstNonEmpty(p.out.state.failed, in.state.failed)
        <4>2. h = [p EXCEPT !.primaryRevision = in.stable, !.primaryReplicas = in.total,
                            !.canaryRevision = NoRevision, !.canaryReplicas = 0,
                            !.rolledBack = TRUE, !.out.state.failed = r]
          BY <1>1, <1>6, <2>3, <4>1, Zenon DEF holdRejectedRevision, h
        <4> HIDE DEF r
        <4>3. h.rolledBack
          BY <1>1, <4>2, Zenon DEF ResultType
        <4>4. res = h
          BY <1>1, <4>3, Zenon DEF guardAgainstStall
        <4>5. QED
          BY <1>1, <1>8, <4>3, <4>4, Zenon
      <3>4. QED
        BY <3>1, <3>2, <3>3, Zenon DEF Running
    <2>4. QED
      BY <1>1, <1>2, <1>4, <1>5, <1>8, <2>1, <2>2, <2>3, Zenon DEF Verdict, Gated, Aims, Running
  <1>9. QED
    BY <1>7, <1>8, Zenon
=============================================================================
