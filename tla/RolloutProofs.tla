---------------------------- MODULE RolloutProofs -----------------------------
(***************************************************************************)
(* What a rollout may never do, for every set of revisions, plans, totals  *)
(* and identifiers, and however many interventions are allowed: the        *)
(* inductive invariant, action by action, from what PlanLemmas says of one *)
(* pass; that a rejection sticks; that a rollout implements                *)
(* RolloutContract; and, from the account a trial keeps of its rounds,     *)
(* that every rung is earned and the failure budget spent.                 *)
(***************************************************************************)
EXTENDS Rollout, PlanLemmas

(* The inductive invariant.  AlwaysAFallback is not inductive alone: a     *)
(* canary whose revision is the empty string would let guardAgainstStall   *)
(* move the primary, so an active canary must also name its revision.      *)
NamedCanary == isActive(st.phase) => st.revision \in Revisions

IInv == TypeOK /\ AlwaysAFallback /\ NamedCanary /\ NeverUnattended

LEMMA InitIInv == Init => IInv
  <1> SUFFICES ASSUME Init PROVE IInv
    BY Zenon
  <1>1. st.phase = "Idle"
    BY Zenon DEF Init, EmptyState
  <1>2. st \in StateType
    BY NameAssumption, Zenon
    DEF Init, EmptyState, NoReadiness, StateType, ReadinessType, Phases, Ages, Revs,
        AnyUID, AnyGeneration, NoTime
  <1>3. dep \in DeploymentType /\ primary \in [revision : Revs, replicas : Nat, health : Health]
    BY Zenon DEF Init, NoDeployment, DeploymentType, AnyUID, Revs, AnyGeneration, NoPrimary, Health
  <1>4. hist \in HistoryType
    <2>1. NoReadiness \in ReadinessType
      BY Zenon DEF NoReadiness, ReadinessType, AnyUID, AnyGeneration
    <2>2. NothingSeen \in [key : ReadinessType, age : Ages]
      BY <2>1, Zenon DEF NothingSeen, Ages
    <2>3. QED
      BY <2>2, Zenon DEF Init, NoHistory, HistoryType, AnyUID, Ages, Revs
  <1>5. TypeOK
    BY <1>2, <1>3, <1>4, Zenon DEF TypeOK, Init, Revs
  <1>6. QED
    BY <1>1, <1>5, Zenon DEF IInv, AlwaysAFallback, NamedCanary, NeverUnattended, isActive

LEMMA InputTyped == IInv => Input \in InputType /\ Fallback(Input)
  <1> SUFFICES ASSUME IInv PROVE Input \in InputType /\ Fallback(Input)
    BY Zenon
  <1>1. /\ target \in Revisions /\ plan \in PlanType /\ total \in Nat /\ stable \in Revs
        /\ st \in StateType /\ dep \in DeploymentType
    BY SpecAssumption, Zenon DEF IInv, TypeOK
  <1>2. st \in MachineState
    BY <1>1, Zenon DEF StateType, MachineState
  <1>3. Input \in InputType
    BY <1>1, <1>2 DEF Input, InputType
  <1>4. Input.state = st /\ Input.stable = stable
    BY Zenon DEF Input
  <1>5. QED
    BY <1>2, <1>3, <1>4, Zenon
    DEF Fallback, InFlight, IInv, AlwaysAFallback, NamedCanary

LEMMA FreshIdentifiers ==
  ASSUME TypeOK
  PROVE  FreshUID \in UIDs /\ FreshGeneration \in Generations
  <1>1. /\ dep.uid \in AnyUID /\ st.readiness.uid \in AnyUID
        /\ hist.scopedFor \in AnyUID /\ hist.seen.key.uid \in AnyUID
        /\ dep.generation \in AnyGeneration /\ st.readiness.generation \in AnyGeneration
        /\ hist.seen.key.generation \in AnyGeneration
    BY Zenon DEF TypeOK, DeploymentType, StateType, HistoryType, ReadinessType
  <1>2. \E u \in UIDs : u \notin {dep.uid, st.readiness.uid, hist.scopedFor,
                                   hist.seen.key.uid}
    BY <1>1, IdentifierAssumption, Zenon
  <1>3. \E g \in Generations : g \notin {dep.generation, st.readiness.generation,
                                          hist.seen.key.generation}
    BY <1>1, IdentifierAssumption, Zenon
  <1>4. QED
    BY <1>2, <1>3, Zenon DEF FreshUID, FreshGeneration

LEMMA NotedTyped ==
  ASSUME IInv, NEW scoped, NEW checks, NEW judged, NEW res \in ResultType
  PROVE  Noted(scoped, checks, judged, res) \in HistoryType
  <1> DEFINE key  == ReadinessTarget(Input)
             seen == IF ~Complete THEN NothingSeen
                     ELSE IF hist.seen.key = key /\ hist.seen.age # NoTime THEN hist.seen
                     ELSE [key |-> key, age |-> 0]
             for  == IF judged /\ scoped THEN dep.uid ELSE hist.scopedFor
             good == /\ judged /\ checks = {"Pass"} /\ for = dep.uid
                     /\ seen.age >= plan.initialDelay + plan.window
             bad  == judged /\ "Fail" \in checks /\ "Error" \notin checks
             new  == res.out.action = "Start"
             r == IF res.out.action = "Rollback" THEN res.out.reason ELSE "none"
             p == IF new THEN {} ELSE IF good THEN hist.passed \cup {st.step} ELSE hist.passed
             f == IF new THEN 0 ELSE IF bad THEN hist.fails + 1 ELSE hist.fails
             c == IF res.out.action \in {"Start", "Advance"} THEN 0 ELSE hist.sinceClimb
             e == IF res.out.state.failed # st.failed \/ res.out.action = "Rollback"
                  THEN res.out.state.failed # target ELSE hist.edited
  <1>1. /\ hist \in HistoryType /\ dep.uid \in AnyUID /\ st.step \in Nat
    BY Zenon DEF IInv, TypeOK, DeploymentType, StateType
  <1>2. key \in ReadinessType
    BY InputTyped, ReadinessTyped, Zenon
  <1>3. NothingSeen \in [key : ReadinessType, age : Ages] /\ 0 \in Ages
    BY Zenon DEF NothingSeen, NoReadiness, ReadinessType, AnyUID, AnyGeneration, Ages
  <1> HIDE DEF key
  <1>4. seen \in [key : ReadinessType, age : Ages]
    BY <1>1, <1>2, <1>3, Zenon DEF HistoryType
  <1>5. for \in AnyUID
    BY <1>1, Zenon DEF HistoryType
  <1>6. res.out.reason \in Reasons
    BY Zenon DEF ResultType, OutputType
  <1> HIDE DEF seen, for, good, bad, new
  <1>7. p \in SUBSET Nat
    BY <1>1, Zenon DEF HistoryType
  <1>8. f \in Nat /\ c \in Ages /\ e \in BOOLEAN /\ r \in Reasons \cup {"none"}
    <2>1. hist.fails \in Nat /\ hist.sinceClimb \in Ages /\ hist.edited \in BOOLEAN
      BY <1>1, Zenon DEF HistoryType
    <2>2. f \in Nat /\ c \in Ages
      BY <1>3, <2>1
    <2>3. e \in BOOLEAN
      BY <2>1, Zenon
    <2>4. r \in Reasons \cup {"none"}
      BY <1>6, Zenon
    <2>5. QED
      BY <2>2, <2>3, <2>4, Zenon
  <1>9. Noted(scoped, checks, judged, res) =
          [hist EXCEPT !.reason = r, !.seen = seen, !.scopedFor = for, !.passed = p,
                       !.fails = f, !.sinceClimb = c, !.edited = e]
    BY Zenon DEF Noted, key, seen, for, good, bad, new
  <1> HIDE DEF r, p, f, c, e
  <1>10. QED
    BY <1>1, <1>4, <1>5, <1>7, <1>8, <1>9, ZenonT(60) DEF HistoryType

LEMMA ReconcileIInv == IInv /\ Reconcile => IInv'
  <1> SUFFICES ASSUME IInv, Reconcile PROVE IInv'
    BY Zenon
  <1> DEFINE due == plan.isCanary /\ RoundDue(Input)
  <1>1. PICK scoped \in IF due THEN ScopeAnswers ELSE {FALSE},
             checks \in IF due THEN SUBSET Verdicts ELSE {{}} :
          LET judged == due /\ ScopeKnown(Input, scoped)
              res    == planRollout(Input, scoped, checks, primary.health = "stalled")
          IN  /\ ApplyPrimary(res) /\ ApplyCanary(res)
              /\ st' = Persisted(res.out) /\ stable' = Bank(res, primary')
              /\ ann' = clearRolloutAnnotations /\ timer' = res.out.requeue
              /\ wake' = (dep' # dep \/ primary' # primary \/ ann # {})
              /\ hist' = Noted(scoped, checks, judged, res)
              /\ UNCHANGED <<target, plan, total, edits>>
    BY ZenonT(60) DEF Reconcile, CarryOut
  <1> DEFINE judged == due /\ ScopeKnown(Input, scoped)
             res    == planRollout(Input, scoped, checks, primary.health = "stalled")
             out    == res.out
  <1>2. scoped \in BOOLEAN /\ checks \in SUBSET Verdicts
    BY SpecAssumption, Zenon
  <1>3. Planned(Input, res)
    BY <1>2, InputTyped, planRolloutPlanned, Zenon
  <1>4. /\ ApplyPrimary(res) /\ ApplyCanary(res)
        /\ st' = Persisted(out) /\ stable' = Bank(res, primary')
        /\ ann' = {} /\ timer' = out.requeue
        /\ wake' = (dep' # dep \/ primary' # primary \/ ann # {})
        /\ hist' = Noted(scoped, checks, judged, res)
        /\ UNCHANGED <<target, plan, total, edits>>
    BY <1>1, Zenon DEF clearRolloutAnnotations
  <1> HIDE DEF res, judged, due
  <1>5. /\ res \in ResultType /\ out \in OutputType /\ Meets(Input, out)
        /\ res.primaryRevision \in Revs /\ res.canaryRevision \in Revs
        /\ res.primaryReplicas \in Nat /\ res.canaryReplicas \in Nat
        /\ out.requeue \in Nat
    BY <1>3, Zenon DEF Planned, ResultType, Meets, OutputType
  <1>6. primary' \in [revision : Revs, replicas : Nat, health : Health]
        /\ primary'.revision = res.primaryRevision
    BY <1>4, <1>5, Zenon DEF ApplyPrimary, IInv, TypeOK, Health
  <1>7. dep' \in DeploymentType
    <2>1. /\ dep \in DeploymentType /\ FreshUID \in AnyUID
          /\ FreshGeneration \in AnyGeneration /\ 1 \in AnyGeneration
      BY FreshIdentifiers, NameAssumption, Zenon DEF IInv, TypeOK, AnyUID, AnyGeneration
    <2>2. NoDeployment \in DeploymentType
      BY Zenon DEF NoDeployment, DeploymentType, AnyUID, Revs, AnyGeneration
    <2>3. QED
      BY <1>4, <1>5, <2>1, <2>2, Zenon DEF ApplyCanary, DeploymentType
  <1>8. /\ st' \in StateType
        /\ st'.stable = out.state.stable /\ st'.revision = out.state.revision
        /\ isActive(st'.phase) <=> out.action \in {"Start", "Advance", "Wait", "Pause"}
        /\ st'.phase \in {"Progressing", "Promoting"}
             => out.action \in {"Start", "Advance", "Wait", "Promote"}
    BY <1>4, <1>5, PersistedTyped, Zenon
  <1>9. hist' \in HistoryType
    BY <1>4, <1>5, NotedTyped, Zenon
  <1>10. stable' \in Revs
    BY <1>4, <1>5, Zenon DEF Bank, IInv, TypeOK
  <1>11. TypeOK'
    BY <1>4, <1>5, <1>6, <1>7, <1>8, <1>9, <1>10, Zenon DEF TypeOK, IInv
  <1>12. NeverUnattended'
    BY <1>4, <1>5, <1>8, Zenon DEF NeverUnattended, Meets
  <1>13. AlwaysAFallback' /\ NamedCanary'
    <2> SUFFICES ASSUME isActive(st'.phase)
                 PROVE  /\ stable' # NoRevision /\ st'.stable = stable'
                        /\ primary'.revision = stable' /\ st'.revision \in Revisions
      BY Zenon DEF AlwaysAFallback, NamedCanary
    <2>1. out.action \in {"Start", "Advance", "Wait", "Pause"}
      BY <1>8, Zenon
    <2>2. InFlight(Input, out.state) /\ Input.stable = stable
      BY <1>5, <2>1, Zenon DEF Meets, Input
    <2>3. canaryActive(out)
      BY <1>5, <2>1, Zenon DEF canaryActive, Meets
    <2>4. stable' = stable
      BY <1>4, <2>3, Zenon DEF Bank
    <2>5. res.primaryRevision = stable
      BY <1>3, <2>1, <2>2, Zenon DEF Planned
    <2>6. QED
      BY <1>6, <1>8, <2>2, <2>4, <2>5, Zenon DEF InFlight
  <1>14. QED
    BY <1>11, <1>12, <1>13, Zenon DEF IInv

(* The other actions leave the position and the fallback alone.            *)
LEMMA OlderTyped ==
  ASSUME NEW age \in Ages, NEW spans
  PROVE  Older(age, spans) \in Ages
  BY DEF Older, Ages

LEMMA EveryoneElseIInv == IInv /\ [Next]_vars /\ ~Reconcile => IInv'
  <1> SUFFICES ASSUME IInv, [Next]_vars, ~Reconcile PROVE IInv'
    BY Zenon
  <1> USE DEF IInv, AlwaysAFallback, NamedCanary, NeverUnattended
  <1>1. ASSUME NEW r \in Revisions, EditSpec(r) PROVE IInv'
    <2>1. hist' \in HistoryType
      BY <1>1, Zenon DEF EditSpec, TypeOK, HistoryType
    <2>2. QED
      BY <1>1, <2>1 DEF EditSpec, Intervene, TypeOK
  <1>2. ASSUME NEW p \in Plans, EditRollout(p) PROVE IInv'
    BY <1>2 DEF EditRollout, Intervene, TypeOK
  <1>3. ASSUME NEW n \in Totals, Scale(n) PROVE IInv'
    BY <1>3 DEF Scale, Intervene, TypeOK
  <1>4. ASSUME NEW a \in {"promote", "abort"}, Annotate(a) PROVE IInv'
    BY <1>4 DEF Annotate, Intervene, TypeOK
  <1>5. ASSUME CanarySettles \/ CanaryFlaps \/ CanaryTampered PROVE IInv'
    <2>1. dep \in DeploymentType /\ FreshGeneration \in AnyGeneration
      BY FreshIdentifiers, Zenon DEF TypeOK, AnyGeneration
    <2>2. NoDeployment \in DeploymentType
      BY Zenon DEF NoDeployment, DeploymentType, AnyUID, Revs, AnyGeneration
    <2>3. dep' \in DeploymentType
      BY <1>5, <2>1, <2>2, Zenon DEF CanarySettles, CanaryFlaps, CanaryTampered, DeploymentType
    <2>4. wake' = TRUE /\ edits' \in Nat
      BY <1>5 DEF CanarySettles, CanaryFlaps, CanaryTampered, Intervene, TypeOK
    <2>5. UNCHANGED <<target, plan, total, ann, stable, st, primary, timer, hist>>
      BY <1>5, Zenon DEF CanarySettles, CanaryFlaps, CanaryTampered
    <2>6. QED
      BY <2>3, <2>4, <2>5, Zenon DEF TypeOK
  <1>6. ASSUME PrimaryMoves \/ PrimaryRecovers PROVE IInv'
    <2>1. /\ primary' \in [revision : Revs, replicas : Nat, health : Health]
          /\ primary'.revision = primary.revision
      BY <1>6, Zenon DEF PrimaryMoves, PrimaryRecovers, TypeOK, Health
    <2>2. wake' = TRUE /\ UNCHANGED <<target, plan, total, ann, stable, st, dep, timer,
                                      edits, hist>>
      BY <1>6, Zenon DEF PrimaryMoves, PrimaryRecovers
    <2>3. QED
      BY <2>1, <2>2, Zenon DEF TypeOK
  <1>7. ASSUME Tick PROVE IInv'
    <2> DEFINE a == Older(st.availableSince, WarmSpans)
               l == Older(st.lastAnalysis, IntervalSpans)
               b == Older(st.startedAt, DeadlineSpans)
               g == Older(hist.seen.age, WarmSpans)
               c == Older(hist.sinceClimb, DeadlineSpans)
    <2>1. st \in StateType /\ hist \in HistoryType
      BY Zenon DEF TypeOK
    <2>2. a \in Ages /\ l \in Ages /\ b \in Ages /\ g \in Ages /\ c \in Ages
      BY <2>1, OlderTyped, Zenon DEF StateType, HistoryType
    <2>3. /\ st' = [st EXCEPT !.availableSince = a, !.lastAnalysis = l, !.startedAt = b]
          /\ hist' = [hist EXCEPT !.seen.age = g, !.sinceClimb = c]
      BY <1>7, Zenon DEF Tick
    <2> HIDE DEF a, l, b, g, c
    <2>4. /\ st' \in StateType /\ st'.phase = st.phase /\ st'.stable = st.stable
          /\ st'.revision = st.revision
      BY <2>1, <2>2, <2>3, Zenon DEF StateType
    <2>5. hist' \in HistoryType
      <3> DEFINE k == [hist.seen EXCEPT !.age = g]
      <3>1. k \in [key : ReadinessType, age : Ages]
        BY <2>1, <2>2, Zenon DEF HistoryType
      <3>2. hist' = [hist EXCEPT !.seen = k, !.sinceClimb = c]
        BY <2>1, <2>3, Zenon DEF HistoryType
      <3> HIDE DEF k
      <3>3. QED
        BY <2>1, <2>2, <3>1, <3>2, Zenon DEF HistoryType
    <2>6. /\ timer' \in Nat /\ timer \in Nat
          /\ timer > 0 => timer' > 0 \/ timer = 1
      BY <1>7 DEF Tick, TypeOK
    <2>7. wake' = (wake \/ timer = 1)
      BY <1>7, Zenon DEF Tick
    <2>8. wake' \in BOOLEAN
      BY <2>7, Zenon
    <2>9. UNCHANGED <<target, plan, total, ann, stable, dep, primary, edits>>
      BY <1>7, Zenon DEF Tick
    <2>10. TypeOK'
      BY <2>4, <2>5, <2>6, <2>8, <2>9, Zenon DEF TypeOK
    <2>11. (wake \/ timer > 0) => (wake' \/ timer' > 0)
      BY <2>6, <2>7, Zenon
    <2>12. QED
      BY <2>4, <2>9, <2>10, <2>11, Zenon
  <1>8. ASSUME UNCHANGED vars PROVE IInv'
    BY <1>8, Zenon DEF vars, TypeOK
  <1>9. QED
    BY <1>1, <1>2, <1>3, <1>4, <1>5, <1>6, <1>7, <1>8, Zenon DEF Next

LEMMA IInvInductive == Spec => []IInv
  <1>1. IInv /\ [Next]_vars => IInv'
    BY ReconcileIInv, EveryoneElseIInv, Zenon
  <1>2. QED
    BY InitIInv, <1>1, PTL DEF Spec

(* The persisted status is always one the state machine can be resumed     *)
(* from (canaryStateFrom, canaryStatusFrom), for every rollout section.    *)
THEOREM TypeCorrect == Spec => []TypeOK
  <1>1. IInv => TypeOK
    BY Zenon DEF IInv
  <1>2. QED
    BY <1>1, IInvInductive, PTL

(* No canary is ever in flight without a last good revision, which is the  *)
(* one a rollback restores and the one the primary is running (begin,      *)
(* planCanary, computeStatus), whatever is edited and however often.       *)
THEOREM FallbackAlways == Spec => []AlwaysAFallback
  <1>1. IInv => AlwaysAFallback
    BY Zenon DEF IInv
  <1>2. QED
    BY <1>1, IInvInductive, PTL

(* A rollout that waits for time or for the primary always has a timer or  *)
(* a queued pass behind it (the RequeueAfter of every Output).             *)
THEOREM AlwaysAttended == Spec => []NeverUnattended
  <1>1. IInv => NeverUnattended
    BY Zenon DEF IInv
  <1>2. QED
    BY <1>1, IInvInductive, PTL

-----------------------------------------------------------------------------
(* A rejected revision stays rejected until a human changes the spec.      *)
(* RejectionSticks is inductive relative to IInv.  A pass that rejects the *)
(* target anew leaves no canary in flight and puts the primary back on the *)
(* last good revision; a pass that finds the target rejected starts        *)
(* nothing (NotRetried) and keeps the primary where it is (HeldBack); and  *)
(* the last good revision cannot meanwhile become the rejected one unless  *)
(* there never was another (BankedTarget).                                 *)
RInv == IInv /\ RejectionSticks

LEMMA NotedEdited ==
  ASSUME IInv, NEW scoped, NEW checks, NEW judged, NEW res
  PROVE  Noted(scoped, checks, judged, res).edited =
           IF res.out.state.failed # st.failed \/ res.out.action = "Rollback"
           THEN res.out.state.failed # target ELSE hist.edited
  BY Zenon DEF Noted, IInv, TypeOK, HistoryType

LEMMA ReconcileSticks == RInv /\ Reconcile => RejectionSticks'
  <1> SUFFICES ASSUME RInv, Reconcile,
                      st'.failed = target', ~hist'.edited,
                      stable' \notin {target', NoRevision}
               PROVE  ~isActive(st'.phase) /\ primary'.revision # target'
    BY Zenon DEF RejectionSticks
  <1> DEFINE due == plan.isCanary /\ RoundDue(Input)
  <1>1. PICK scoped \in IF due THEN ScopeAnswers ELSE {FALSE},
             checks \in IF due THEN SUBSET Verdicts ELSE {{}} :
          LET judged == due /\ ScopeKnown(Input, scoped)
              res    == planRollout(Input, scoped, checks, primary.health = "stalled")
          IN  /\ ApplyPrimary(res) /\ st' = Persisted(res.out)
              /\ stable' = Bank(res, primary')
              /\ hist' = Noted(scoped, checks, judged, res) /\ target' = target
    BY Zenon DEF Reconcile, CarryOut
  <1> DEFINE judged == due /\ ScopeKnown(Input, scoped)
             stuck  == primary.health = "stalled"
             res    == planRollout(Input, scoped, checks, stuck)
  <1>2. /\ scoped \in BOOLEAN /\ checks \in SUBSET Verdicts
        /\ IInv /\ RejectionSticks /\ Input \in InputType /\ Fallback(Input)
    BY SpecAssumption, InputTyped, Zenon DEF RInv
  <1>3. /\ Input.target = target /\ Input.stable = stable /\ Input.state = st
    BY Zenon DEF Input
  <1>4. /\ ApplyPrimary(res) /\ st' = Persisted(res.out)
        /\ stable' = Bank(res, primary')
        /\ hist' = Noted(scoped, checks, judged, res) /\ target' = target
    BY <1>1, Zenon
  <1>5. Planned(Input, res)
    BY <1>2, planRolloutPlanned, Zenon
  <1>6. res.out \in OutputType /\ res \in ResultType
    BY <1>5, Zenon DEF Planned, ResultType
  <1>7. /\ res.out.action \in Running
             => /\ res.out.state.failed = st.failed
                /\ st.failed = target => isActive(st.phase)
        /\ (res.out.action \notin Running /\ res.out.state.failed = target
             /\ stable \notin {NoRevision, target}) => res.primaryRevision # target
        /\ (stable \in {NoRevision, target} /\ res.rolledBack)
             => res.primaryRevision = target
    <2> HIDE DEF stuck
    <2>1. CASE res.out.action \in Running
      BY <1>2, <1>3, <2>1, RunningKeeps, HeldBack, BankedTarget
    <2>2. CASE res.out.action \notin Running
      BY <1>2, <1>3, <2>2, HeldBack, BankedTarget
    <2>3. QED
      BY <2>1, <2>2, Zenon
  <1> HIDE DEF res, judged, stuck
  <1>8. /\ st'.failed = res.out.state.failed
        /\ isActive(st'.phase) <=> res.out.action \in Running
    BY <1>4, <1>6, PersistedTyped, Zenon DEF Running
  <1>9. primary'.revision = res.primaryRevision
    BY <1>4, Zenon DEF ApplyPrimary
  <1>10. stable \notin {NoRevision, target}
    BY <1>4, <1>7, Zenon DEF Bank
  <1>11. res.out.action \notin Running
    <2> SUFFICES ASSUME res.out.action \in Running PROVE FALSE
      BY Zenon
    <2>1. st.failed = target /\ isActive(st.phase)
      BY <1>4, <1>7, <1>8, Zenon
    <2>2. hist'.edited = hist.edited
      BY <1>2, <1>4, <1>7, NotedEdited DEF Running
    <2>3. QED
      BY <1>2, <1>10, <2>1, <2>2, Zenon DEF RejectionSticks
  <1>12. QED
    BY <1>4, <1>7, <1>8, <1>9, <1>10, <1>11, Zenon

LEMMA EveryoneElseSticks == RInv /\ [Next]_vars /\ ~Reconcile => RejectionSticks'
  <1> SUFFICES ASSUME RInv, [Next]_vars, ~Reconcile PROVE RejectionSticks'
    BY Zenon
  <1>1. hist \in HistoryType /\ st \in StateType
    BY Zenon DEF RInv, IInv, TypeOK
  <1>2. ASSUME NEW r \in Revisions, EditSpec(r) PROVE RejectionSticks'
    <2>1. hist'.edited = TRUE
      BY <1>1, <1>2, Zenon DEF EditSpec, HistoryType
    <2>2. QED
      BY <2>1, Zenon DEF RejectionSticks
  <1>3. ASSUME /\ target' = target /\ stable' = stable /\ st'.failed = st.failed
               /\ st'.phase = st.phase /\ primary'.revision = primary.revision
               /\ hist'.edited = hist.edited
        PROVE  RejectionSticks'
    BY <1>3, Zenon DEF RInv, RejectionSticks
  <1>4. ASSUME NEW p \in Plans, EditRollout(p) PROVE RejectionSticks'
    BY <1>3, <1>4, Zenon DEF EditRollout
  <1>5. ASSUME NEW n \in Totals, Scale(n) PROVE RejectionSticks'
    BY <1>3, <1>5, Zenon DEF Scale
  <1>6. ASSUME NEW a \in {"promote", "abort"}, Annotate(a) PROVE RejectionSticks'
    <2>1. hist'.edited = hist.edited
      BY <1>1, <1>6, Zenon DEF Annotate, HistoryType
    <2>2. QED
      BY <1>3, <1>6, <2>1, Zenon DEF Annotate
  <1>7. ASSUME CanarySettles \/ CanaryFlaps \/ CanaryTampered PROVE RejectionSticks'
    BY <1>3, <1>7, Zenon DEF CanarySettles, CanaryFlaps, CanaryTampered
  <1>8. ASSUME PrimaryMoves \/ PrimaryRecovers PROVE RejectionSticks'
    <2>1. primary'.revision = primary.revision
      BY <1>8, Zenon DEF PrimaryMoves, PrimaryRecovers, RInv, IInv, TypeOK
    <2>2. QED
      BY <1>3, <1>8, <2>1, Zenon DEF PrimaryMoves, PrimaryRecovers
  <1>9. ASSUME Tick PROVE RejectionSticks'
    <2>1. st'.failed = st.failed /\ st'.phase = st.phase /\ hist'.edited = hist.edited
      BY <1>1, <1>9, Zenon DEF Tick, StateType, HistoryType
    <2>2. QED
      BY <1>3, <1>9, <2>1, Zenon DEF Tick
  <1>10. ASSUME UNCHANGED vars PROVE RejectionSticks'
    BY <1>3, <1>10, Zenon DEF vars
  <1>11. QED
    BY <1>2, <1>4, <1>5, <1>6, <1>7, <1>8, <1>9, <1>10, Zenon DEF Next

(* A rollback sticks until a human changes the spec (begin,                *)
(* holdRejectedRevision, guardAgainstStall): for every rollout section and *)
(* with any number of passes, replans, strategy changes and Deployment     *)
(* events, neither a canary nor the primary runs the rejected target while *)
(* there is another revision to run.                                       *)
THEOREM RejectionHolds == Spec => []RejectionSticks
  <1>1. Init => RInv
    BY InitIInv, Zenon DEF RInv, RejectionSticks, Init, NoHistory
  <1>2. RInv /\ [Next]_vars => RInv'
    BY ReconcileIInv, EveryoneElseIInv, ReconcileSticks, EveryoneElseSticks, Zenon DEF RInv
  <1>3. RInv => RejectionSticks
    BY Zenon DEF RInv
  <1>4. QED
    BY <1>1, <1>2, <1>3, PTL DEF Spec

-----------------------------------------------------------------------------
(* One pass is one step of the contract. *)

OnTest == IF isActive(st.phase) THEN st.revision ELSE NoRevision

LEMMA ReconcileIsAStep == IInv /\ Reconcile => Contract!Next
  <1> SUFFICES ASSUME IInv, Reconcile PROVE Contract!Next
    BY Zenon
  <1> DEFINE due == plan.isCanary /\ RoundDue(Input)
  <1>1. PICK scoped \in IF due THEN ScopeAnswers ELSE {FALSE},
             checks \in IF due THEN SUBSET Verdicts ELSE {{}} :
          LET res == planRollout(Input, scoped, checks, primary.health = "stalled")
          IN  /\ ApplyPrimary(res) /\ st' = Persisted(res.out)
              /\ stable' = Bank(res, primary') /\ target' = target
    BY Zenon DEF Reconcile, CarryOut
  <1> DEFINE stuck == primary.health = "stalled"
             o     == Plan0(Input, scoped, checks)
             p     == planCanary(Input, o)
             res   == planRollout(Input, scoped, checks, stuck)
  <1>2. /\ scoped \in BOOLEAN /\ checks \in SUBSET Verdicts
        /\ Input \in InputType /\ Fallback(Input)
    BY SpecAssumption, InputTyped, Zenon
  <1>3. Input.target = target /\ Input.stable = stable /\ Input.state = st
    BY Zenon DEF Input
  <1>4. /\ ApplyPrimary(res) /\ st' = Persisted(res.out)
        /\ stable' = Bank(res, primary') /\ target' = target
    BY <1>1, Zenon
  <1> HIDE DEF stuck
  <1>5. Planned(Input, res)
    BY <1>2, planRolloutPlanned, Zenon
  <1>6. Aims(Input, o) /\ Meets(Input, o) /\ p.out = o
    BY <1>2, PlanAims, PlanSteps, Zenon
  <1>7. \/ res = p
        \/ /\ res.out.action \notin Running /\ stable # NoRevision
           /\ res.primaryRevision = stable /\ res.out.state.failed = target
    BY <1>2, <1>3, PlanShapes
  <1>8. /\ res.out.action \in Running
             => /\ res.out.state.failed = st.failed
                /\ st.failed = target => isActive(st.phase)
        /\ (res.out.action \notin Running /\ res.out.state.failed = target
             /\ stable \notin {NoRevision, target}) => res.primaryRevision # target
    <2>1. CASE res.out.action \in Running
      BY <1>2, <1>3, <2>1, RunningKeeps
    <2>2. CASE res.out.action \notin Running
      BY <1>2, <1>3, <2>2, HeldBack, Zenon
    <2>3. QED
      BY <2>1, <2>2, Zenon
  <1>9. /\ p.out.action = "None" => p.primaryRevision = target
        /\ p.out.action = "Promote" => p.primaryRevision = o.state.revision
        /\ p.out.action = "Rollback" => p.primaryRevision =
             firstNonEmpty(o.state.stable, firstNonEmpty(stable, target))
    BY <1>3, Zenon DEF planCanary
  <1> HIDE DEF res, o, p
  <1>10. res.out \in OutputType /\ o \in OutputType /\ res \in ResultType
    BY <1>5, <1>6, Zenon DEF Planned, ResultType, Meets
  <1>11. /\ st'.failed = res.out.state.failed /\ st'.revision = res.out.state.revision
         /\ isActive(st'.phase) <=> res.out.action \in Running
    BY <1>4, <1>10, PersistedTyped, Zenon DEF Running
  <1>12. primary'.revision = res.primaryRevision
    BY <1>4, Zenon DEF ApplyPrimary
  <1>13. OnTest' = IF res.out.action \in Running THEN res.out.state.revision ELSE NoRevision
    BY <1>11, Zenon DEF OnTest
  <1>14. CASE res.out.action \in Running
    <2>1. res = p /\ o.action \in Running /\ res.out = o
      BY <1>6, <1>7, <1>14, Zenon
    <2>2. /\ stable # NoRevision /\ res.primaryRevision = stable
      BY <1>3, <1>5, <1>14, Zenon DEF Planned, Meets, InFlight, Running
    <2>3. canaryActive(res.out)
      BY <1>5, <1>14, Zenon DEF Planned, canaryActive, Meets, Running
    <2>4. stable' = stable
      BY <1>4, <2>3, Zenon DEF Bank
    <2>5. OnTest' = target /\ st'.failed = st.failed
      BY <1>3, <1>6, <1>8, <1>11, <1>13, <1>14, <2>1, Zenon DEF Aims
    <2>6. st.failed = target => OnTest # NoRevision
      BY <1>8, <1>14, NameAssumption, Zenon DEF OnTest, IInv, NamedCanary
    <2>7. Contract!Test
      BY <1>4, <1>12, <2>2, <2>4, <2>5, <2>6, Zenon DEF Contract!Test, OnTest
    <2>8. QED
      BY <2>7, Zenon DEF Contract!Next
  <1>15. CASE res.out.action \notin Running /\ res # p
    <2>1. stable' = stable
      BY <1>4, <1>7, <1>15, Zenon DEF Bank
    <2>2. Contract!Retreat
      BY <1>4, <1>7, <1>11, <1>12, <1>13, <1>15, <2>1, Zenon DEF Contract!Retreat, OnTest
    <2>3. QED
      BY <2>2, Zenon DEF Contract!Next
  <1>16. CASE res.out.action = "Rollback" /\ res = p
    <2>1. /\ isActive(st.phase) /\ o.state.stable = stable /\ o.state.failed = st.revision
          /\ stable # NoRevision
      BY <1>3, <1>6, <1>16, Zenon DEF Aims, IInv, AlwaysAFallback
    <2>2. res.primaryRevision = stable
      BY <1>6, <1>9, <1>16, <2>1, Zenon DEF firstNonEmpty
    <2>3. stable' = stable /\ st'.failed = st.revision /\ OnTest = st.revision
      BY <1>4, <1>6, <1>11, <1>16, <2>1, <2>2, Zenon DEF Bank, OnTest
    <2>4. Contract!Retreat
      BY <1>4, <1>12, <1>13, <1>16, <2>1, <2>2, <2>3, Zenon
      DEF Contract!Retreat, OnTest, Running
    <2>5. QED
      BY <2>4, Zenon DEF Contract!Next
  <1>17. CASE res.out.action \in {"None", "Promote"} /\ res = p
    <2>1. res.primaryRevision = target /\ st'.failed \in {st.failed, NoRevision}
      BY <1>3, <1>6, <1>9, <1>11, <1>17, Zenon DEF Aims
    <2>2. stable' \in {stable, target}
      BY <1>4, <2>1, Zenon DEF Bank
    <2>3. st'.failed = target => stable \in {NoRevision, target}
      BY <1>8, <1>11, <1>17, <2>1, Zenon DEF Running
    <2>4. Contract!Release
      BY <1>4, <1>12, <1>13, <1>17, <2>1, <2>2, <2>3, Zenon
      DEF Contract!Release, OnTest, Running
    <2>5. QED
      BY <2>4, Zenon DEF Contract!Next
  <1>18. QED
    BY <1>10, <1>14, <1>15, <1>16, <1>17, Zenon DEF OutputType, Actions, Running

LEMMA EveryoneElseIsAStep ==
  IInv /\ [Next]_vars /\ ~Reconcile => Contract!Ask \/ UNCHANGED Contract!cvars
  <1> SUFFICES ASSUME IInv, [Next]_vars, ~Reconcile
               PROVE  Contract!Ask \/ UNCHANGED Contract!cvars
    BY Zenon
  <1>1. st \in StateType /\ primary \in [revision : Revs, replicas : Nat, health : Health]
    BY Zenon DEF IInv, TypeOK
  <1>2. ASSUME NEW r \in Revisions, EditSpec(r) PROVE Contract!Ask
    BY <1>2, Zenon DEF EditSpec, Contract!Ask
  <1>3. ASSUME /\ target' = target /\ stable' = stable /\ st'.failed = st.failed
               /\ st'.phase = st.phase /\ st'.revision = st.revision
               /\ primary'.revision = primary.revision
        PROVE  UNCHANGED Contract!cvars
    BY <1>3, Zenon DEF Contract!cvars
  <1>4. ASSUME NEW p \in Plans, EditRollout(p) PROVE UNCHANGED Contract!cvars
    BY <1>3, <1>4, Zenon DEF EditRollout
  <1>5. ASSUME NEW n \in Totals, Scale(n) PROVE UNCHANGED Contract!cvars
    BY <1>3, <1>5, Zenon DEF Scale
  <1>6. ASSUME NEW a \in {"promote", "abort"}, Annotate(a) PROVE UNCHANGED Contract!cvars
    BY <1>3, <1>6, Zenon DEF Annotate
  <1>7. ASSUME CanarySettles \/ CanaryFlaps \/ CanaryTampered PROVE UNCHANGED Contract!cvars
    BY <1>3, <1>7, Zenon DEF CanarySettles, CanaryFlaps, CanaryTampered
  <1>8. ASSUME PrimaryMoves \/ PrimaryRecovers PROVE UNCHANGED Contract!cvars
    <2>1. primary'.revision = primary.revision
      BY <1>1, <1>8, Zenon DEF PrimaryMoves, PrimaryRecovers
    <2>2. QED
      BY <1>3, <1>8, <2>1, Zenon DEF PrimaryMoves, PrimaryRecovers
  <1>9. ASSUME Tick PROVE UNCHANGED Contract!cvars
    <2>1. /\ st'.failed = st.failed /\ st'.phase = st.phase /\ st'.revision = st.revision
      BY <1>1, <1>9, Zenon DEF Tick, StateType
    <2>2. QED
      BY <1>3, <1>9, <2>1, Zenon DEF Tick
  <1>10. ASSUME UNCHANGED vars PROVE UNCHANGED Contract!cvars
    BY <1>3, <1>10, Zenon DEF vars
  <1>11. QED
    BY <1>2, <1>4, <1>5, <1>6, <1>7, <1>8, <1>9, <1>10, Zenon DEF Next

(* A rollout implements RolloutContract (planRollout, planCanary,          *)
(* holdRejectedRevision, guardAgainstStall, computeStatus): whatever the   *)
(* steps, budgets, verdicts, interventions and Deployment events, every    *)
(* pass of the controller tests the wanted revision beside the good one,   *)
(* releases the wanted one, or retreats to the good one, and rejects only  *)
(* what was on trial or wanted.                                            *)
THEOREM RolloutImplementsContract == Spec => ImplementsContract
  <1>1. Init => Contract!Init
    BY DEF Init, Contract!Init, EmptyState, NoPrimary, isActive
  <1>2. IInv /\ [Next]_vars => [Contract!Next]_(Contract!cvars)
    BY ReconcileIsAStep, EveryoneElseIsAStep, Zenon DEF Contract!Next
  <1>3. Init => IInv
    BY InitIInv, Zenon
  <1>4. IInv /\ [Next]_vars => IInv'
    BY ReconcileIInv, EveryoneElseIInv, Zenon
  <1>5. QED
    BY <1>1, <1>2, <1>3, <1>4, PTL DEF Spec, ImplementsContract, Contract!Spec

-----------------------------------------------------------------------------
(* What a trial has earned.  Follows says what may become of a canary s    *)
(* that a pass has observed: it starts over, ends, waits where it is with  *)
(* its failures counted, or moves on with a passing round.                 *)
Judging(in, s) == in.round # NoRound /\ DueForAnalysis(in.plan, s)

Cramped(in, s) == splitFor(in, currentWeight(in.plan, s)).canary = 0

Stays(s, t) ==
  /\ t.step = s.step /\ t.readiness = s.readiness
  /\ t.scopeReady = s.scopeReady /\ t.availableSince = s.availableSince

Waits(in, s, out) ==
  LET t == out.state
  IN  /\ out.action = "Wait" /\ Stays(s, t) /\ s.startedAt # NoTime
      /\ \/ ~(Judging(in, s) /\ in.round = "Fail") /\ t.failedChecks = s.failedChecks
         \/ /\ Judging(in, s) /\ in.round = "Fail"
            /\ t.failedChecks = s.failedChecks + 1
            /\ t.failedChecks < in.plan.failureThreshold

Passes(in, s, out) ==
  LET t == out.state
  IN  /\ s.startedAt # NoTime /\ Judging(in, s) /\ in.round = "Pass"
      /\ t.failedChecks = s.failedChecks
      /\ \/ /\ out.action \in {"Pause", "Promote"} /\ Stays(s, t)
            /\ s.step >= Len(in.plan.weights) - 1
         \/ /\ out.action = "Advance" /\ t.availableSince = NoTime
            /\ t.step = s.step + 1
            /\ t.readiness = s.readiness /\ t.scopeReady = s.scopeReady

Restarts(out) ==
  /\ out.action = "Start" /\ out.state.step = 0 /\ out.state.failedChecks = 0
  /\ out.state.availableSince = NoTime /\ ~out.state.scopeReady

Follows(in, s, out) ==
  \/ Restarts(out) \/ out.action = "Rollback"
  \/ out.action = "Wait" /\ out.state.startedAt = NoTime /\ Cramped(in, s)
  \/ Waits(in, s, out)
  \/ Passes(in, s, out)
  \/ /\ out.action \in {"Pause", "Promote"} /\ s.phase = "Paused"
     /\ Stays(s, out.state) /\ out.state.failedChecks = s.failedChecks
  \/ /\ out.action = "Promote" /\ in.round = "Inconclusive"
     /\ in.plan.onInconclusive = "Promote"

(* The outcomes that keep a position change nothing of it but the phase.   *)
LEMMA holdParts ==
  ASSUME NEW in, NEW s \in MachineState, NEW p, NEW r, NEW q
  PROVE  LET o == hold(in, s, p, r, q)
         IN  /\ o.action = "Wait" /\ Stays(s, o.state)
             /\ o.state.failedChecks = s.failedChecks
  BY Zenon DEF hold, Divided, MachineState, Stays

LEMMA PromoteParts ==
  ASSUME NEW in, NEW s \in MachineState
  PROVE  LET o == Promote(in, s)
         IN  /\ o.action = "Promote" /\ Stays(s, o.state)
             /\ o.state.failedChecks = s.failedChecks
  BY Zenon DEF Promote, Alone, MachineState, Stays

LEMMA PauseParts ==
  ASSUME NEW in, NEW s \in MachineState
  PROVE  LET o == Pause(in, s)
         IN  /\ o.action = "Pause" /\ Stays(s, o.state)
             /\ o.state.failedChecks = s.failedChecks
  BY Zenon DEF Pause, Divided, MachineState, Stays

LEMMA rollbackParts ==
  ASSUME NEW in, NEW s, NEW r
  PROVE  rollback(in, s, r).action = "Rollback"
  BY Zenon DEF rollback, Alone

LEMMA startParts ==
  ASSUME NEW in
  PROVE  /\ Restarts(start(in))
         /\ capacityHold(in).action = "Wait" /\ capacityHold(in).state.startedAt = NoTime
  <1>1. Restarts(start(in))
    BY Zenon DEF Restarts, start, Divided, Fresh, EmptyState
  <1>2. capacityHold(in).action = "Wait" /\ capacityHold(in).state.startedAt = NoTime
    BY Zenon DEF capacityHold, Alone, Fresh, EmptyState
  <1>3. QED
    BY <1>1, <1>2, Zenon

LEMMA JudgeFollows ==
  ASSUME NEW in \in InputType, NEW s \in MachineState, Judging(in, s),
         s.startedAt # NoTime
  PROVE  Follows(in, s, judge(in, [apply(s, in.round) EXCEPT !.lastAnalysis = 0]))
  <1> DEFINE v == in.round
             f == IF v = "Fail" THEN s.failedChecks + 1 ELSE s.failedChecks
             e == IF v = "Error" THEN s.consecErr + 1 ELSE 0
             i == CASE v = "Inconclusive" -> s.consecInconcl + 1
                    [] v = "Error" -> s.consecInconcl [] OTHER -> 0
             t == [s EXCEPT !.failedChecks = f, !.consecErr = e, !.consecInconcl = i,
                            !.lastAnalysis = 0]
             out == judge(in, t)
  <1>1. /\ v \in Verdicts /\ in.plan.failureThreshold \in Nat
        /\ in.plan.onInconclusive \in {"Wait", "Rollback", "Promote"}
    BY Zenon DEF InputType, PlanType, Judging
  <1>2. f \in Nat /\ e \in Nat /\ i \in Nat /\ 0 \in Ages
    BY DEF MachineState, Ages
  <1>3. [apply(s, v) EXCEPT !.lastAnalysis = 0] = t
    BY Zenon DEF apply, MachineState
  <1>4. v = "Fail" => f = s.failedChecks + 1
    BY Zenon
  <1>5. v # "Fail" => f = s.failedChecks
    BY Zenon
  <1> HIDE DEF f, e, i
  <1>6. t \in MachineState /\ Stays(s, t) /\ t.failedChecks = f
    BY <1>2, Zenon DEF MachineState, Stays
  <1> HIDE DEF t
  <1>7. \A u : Stays(t, u) => Stays(s, u)
    BY <1>6, Zenon DEF Stays
  <1>8. ASSUME NEW r, NEW q
        PROVE  LET o == hold(in, t, "Progressing", r, q)
               IN  /\ o.action = "Wait" /\ Stays(s, o.state) /\ o.state.failedChecks = f
                   /\ v # "Fail" => Follows(in, s, o)
    <2> DEFINE o == hold(in, t, "Progressing", r, q)
    <2>1. o.action = "Wait" /\ Stays(s, o.state) /\ o.state.failedChecks = f
      <3>1. /\ o.action = "Wait" /\ Stays(t, o.state)
            /\ o.state.failedChecks = t.failedChecks
        BY <1>6, holdParts
      <3>2. QED
        BY <1>6, <1>7, <3>1, Zenon
    <2> HIDE DEF o
    <2>2. v # "Fail" => Follows(in, s, o)
      BY <1>5, <2>1, Zenon DEF Follows, Waits
    <2>3. QED
      BY <2>1, <2>2, Zenon DEF o
  <1>9. \A r : Follows(in, s, rollback(in, t, r))
    BY rollbackParts, Zenon DEF Follows
  <1>10. CASE v = "Error"
    <2>1. judge(in, t) = IF t.consecErr >= in.plan.consecutiveErrorLimit
                         THEN rollback(in, t, "AnalysisError")
                         ELSE hold(in, t, "Progressing", "AnalysisError", in.plan.interval)
      BY <1>10, Zenon DEF judge
    <2>2. QED
      BY <1>3, <1>8, <1>9, <1>10, <2>1, Zenon
  <1>11. CASE v = "Inconclusive"
    <2>1. judge(in, t) = IF t.consecInconcl >= in.plan.inconclusiveLimit
                         THEN onInconclusive(in, t)
                         ELSE hold(in, t, "Progressing", "AnalysisInconclusive", in.plan.interval)
      BY <1>11, Zenon DEF judge
    <2>2. in.plan.onInconclusive = "Promote" => Follows(in, s, Promote(in, t))
      BY <1>6, <1>11, PromoteParts, Zenon DEF Follows
    <2>3. Follows(in, s, onInconclusive(in, t))
      BY <1>1, <1>8, <1>9, <1>11, <2>2, Zenon DEF onInconclusive
    <2>4. QED
      BY <1>3, <1>8, <1>11, <2>1, <2>3, Zenon
  <1>12. CASE v = "Fail"
    <2>1. judge(in, t) = IF t.failedChecks >= in.plan.failureThreshold
                         THEN rollback(in, t, "CanaryRolledBack")
                         ELSE hold(in, t, "Progressing", "CanaryChecksFailed", in.plan.interval)
      BY <1>12, Zenon DEF judge
    <2>2. ~(t.failedChecks >= in.plan.failureThreshold)
            => f < in.plan.failureThreshold
      BY <1>1, <1>2, <1>6
    <2>3. ASSUME f < in.plan.failureThreshold, NEW r, NEW q
          PROVE  Follows(in, s, hold(in, t, "Progressing", r, q))
      <3> DEFINE o == hold(in, t, "Progressing", r, q)
      <3>1. o.action = "Wait" /\ Stays(s, o.state) /\ o.state.failedChecks = f
        BY <1>8, Zenon
      <3> HIDE DEF o
      <3>2. Follows(in, s, o)
        BY <1>4, <1>12, <2>3, <3>1, Zenon DEF Follows, Waits
      <3>3. QED
        BY <3>2, Zenon DEF o
    <2>4. QED
      BY <1>3, <1>9, <2>1, <2>2, <2>3, Zenon
  <1>13. CASE v = "Pass"
    <2>1. judge(in, t) = advance(in, t)
      BY <1>13, Zenon DEF judge
    <2>2. t.step = s.step /\ t.step \in Nat
      BY <1>6, Zenon DEF Stays, MachineState
    <2>3. CASE t.step >= Len(in.plan.weights) - 1
      <3>1. judge(in, t) \in {Pause(in, t), Promote(in, t)}
        BY <2>1, <2>3, Zenon DEF advance
      <3>2. Follows(in, s, Pause(in, t)) /\ Follows(in, s, Promote(in, t))
        <4> DEFINE a == Pause(in, t)
                   b == Promote(in, t)
        <4>1. /\ a.action = "Pause" /\ Stays(s, a.state) /\ a.state.failedChecks = f
              /\ b.action = "Promote" /\ Stays(s, b.state) /\ b.state.failedChecks = f
          BY <1>6, <1>7, PauseParts, PromoteParts, Zenon
        <4> HIDE DEF a, b
        <4>2. Follows(in, s, a) /\ Follows(in, s, b)
          BY <1>5, <1>13, <2>2, <2>3, <4>1, Zenon DEF Follows, Passes
        <4>3. QED
          BY <4>2, Zenon DEF a, b
      <3>3. QED
        BY <1>3, <3>1, <3>2, Zenon
    <2>4. CASE ~(t.step >= Len(in.plan.weights) - 1)
      <3> DEFINE up == [t EXCEPT !.step = t.step + 1, !.phase = "Waiting",
                                 !.availableSince = NoTime, !.lastAnalysis = NoTime]
                 o  == Divided(in, up, "Advance", "CanaryChecksPassed",
                               currentWeight(in.plan, up), in.plan.interval)
      <3>1. judge(in, t) = o
        BY <2>1, <2>4, Zenon DEF advance
      <3>2. /\ up.step = t.step + 1 /\ up.availableSince = NoTime
            /\ up.readiness = t.readiness /\ up.scopeReady = t.scopeReady
            /\ up.failedChecks = t.failedChecks
        BY <1>6, Zenon DEF MachineState
      <3> HIDE DEF up
      <3>3. o.action = "Advance" /\ o.state = up
        BY Zenon DEF Divided
      <3>4. QED
        BY <1>3, <1>5, <1>6, <1>13, <2>2, <3>1, <3>2, <3>3, Zenon
        DEF Follows, Passes, Stays
    <2>5. QED
      BY <2>3, <2>4, Zenon
  <1>14. QED
    BY <1>1, <1>10, <1>11, <1>12, <1>13, Zenon DEF Verdicts

LEMMA AnalyseFollows ==
  ASSUME NEW in \in InputType, NEW s \in MachineState
  PROVE  Follows(in, s, analyse(in, s))
  <1>1. Cramped(in, s) => Follows(in, s, capacityHold(in))
    BY startParts, Zenon DEF Follows
  <1>2. Follows(in, s, start(in))
    BY startParts, Zenon DEF Follows
  <1>3. \A r : Follows(in, s, rollback(in, s, r))
    BY rollbackParts, Zenon DEF Follows
  <1>4. ASSUME ~Judging(in, s), s.startedAt # NoTime, NEW p, NEW r, NEW q
        PROVE  Follows(in, s, hold(in, s, p, r, q))
    <2> DEFINE o == hold(in, s, p, r, q)
    <2>1. /\ o.action = "Wait" /\ Stays(s, o.state)
          /\ o.state.failedChecks = s.failedChecks
      BY holdParts
    <2> HIDE DEF o
    <2>2. Follows(in, s, o)
      BY <1>4, <2>1, Zenon DEF Follows, Waits
    <2>3. QED
      BY <2>2, Zenon DEF o
  <1>5. CASE Cramped(in, s)
    BY <1>1, <1>5, Zenon DEF analyse, Cramped
  <1>6. CASE ~Cramped(in, s) /\ s.startedAt = NoTime
    BY <1>2, <1>6, Zenon DEF analyse, Cramped
  <1>7. CASE ~Cramped(in, s) /\ s.startedAt # NoTime /\ DeadlinePassed(in.plan, s)
    BY <1>3, <1>7, Zenon DEF analyse, Cramped
  <1>8. CASE /\ ~Cramped(in, s) /\ s.startedAt # NoTime /\ ~DeadlinePassed(in.plan, s)
             /\ ~Warm(in.plan, s)
    <2>1. ~Judging(in, s)
      BY <1>8, Zenon DEF Judging, DueForAnalysis
    <2>2. QED
      BY <1>4, <1>8, <2>1, Zenon DEF analyse, Cramped
  <1>9. CASE /\ ~Cramped(in, s) /\ s.startedAt # NoTime /\ ~DeadlinePassed(in.plan, s)
             /\ Warm(in.plan, s) /\ ~Judging(in, s)
    <2>1. s.availableSince # NoTime /\ (in.round = NoRound \/ ~DueForAnalysis(in.plan, s))
      BY <1>9, Zenon DEF Judging, Warm
    <2>2. QED
      BY <1>4, <1>9, <2>1, Zenon DEF analyse, Cramped
  <1>10. CASE /\ ~Cramped(in, s) /\ s.startedAt # NoTime /\ ~DeadlinePassed(in.plan, s)
              /\ Warm(in.plan, s) /\ Judging(in, s)
    <2>1. s.availableSince # NoTime /\ ~(in.round = NoRound \/ ~DueForAnalysis(in.plan, s))
      BY <1>10, Zenon DEF Judging, Warm
    <2>2. analyse(in, s) = judge(in, [apply(s, in.round) EXCEPT !.lastAnalysis = 0])
      BY <1>10, <2>1, Zenon DEF analyse, Cramped
    <2>3. QED
      BY <1>10, <2>2, JudgeFollows, Zenon
  <1>11. QED
    BY <1>5, <1>6, <1>7, <1>8, <1>9, <1>10, Zenon

(* The machine as a whole, once it has observed.  A canary of another      *)
(* revision than the target starts over.                                   *)
LEMMA DispatchFollows ==
  ASSUME NEW in \in InputType, isActive(in.state.phase)
  PROVE  LET out == Dispatch(in, in.state)
         IN  /\ in.state.revision = in.target => Follows(in, in.state, out)
             /\ in.state.revision # in.target =>
                  \/ Restarts(out) \/ out.action = "Rollback"
                  \/ out.action = "Wait" /\ out.state.startedAt = NoTime
  <1> DEFINE s == in.state
  <1>1. s \in MachineState
    BY Zenon DEF InputType
  <1> HIDE DEF s
  <1>2. CASE in.aborted
    <2>1. Dispatch(in, s) = rollback(in, s, "CanaryAborted")
      BY <1>2, Zenon DEF Dispatch, s
    <2>2. QED
      BY <2>1, rollbackParts, Zenon DEF Follows, s
  <1>3. CASE ~in.aborted /\ s.revision # in.target
    <2>1. Dispatch(in, s) = startOrHold(in)
      BY <1>3, Zenon DEF Dispatch, s
    <2>2. QED
      BY <1>3, <2>1, startParts, Zenon DEF startOrHold, s
  <1>4. CASE ~in.aborted /\ s.revision = in.target /\ s.phase = "Paused"
    <2>1. Dispatch(in, s) = paused(in, s)
      BY <1>4, Zenon DEF Dispatch
    <2> DEFINE a == Pause(in, s)
               b == Promote(in, s)
    <2>2. /\ a.action = "Pause" /\ Stays(s, a.state) /\ a.state.failedChecks = s.failedChecks
          /\ b.action = "Promote" /\ Stays(s, b.state)
          /\ b.state.failedChecks = s.failedChecks
      BY <1>1, PauseParts, PromoteParts, Zenon
    <2> HIDE DEF a, b
    <2>3. Follows(in, s, a) /\ Follows(in, s, b)
      BY <1>4, <2>2, Zenon DEF Follows
    <2>4. QED
      BY <1>4, <2>1, <2>3, Zenon DEF paused, a, b, s
  <1>5. CASE ~in.aborted /\ s.revision = in.target /\ s.phase # "Paused"
    <2>1. s.phase \in {"Waiting", "Progressing"}
      BY <1>5, Zenon DEF isActive, s
    <2>2. Dispatch(in, s) = analyse(in, s)
      BY <1>5, <2>1, Zenon DEF Dispatch
    <2>3. QED
      BY <1>1, <1>5, <2>2, AnalyseFollows, Zenon DEF s
  <1>6. QED
    BY <1>2, <1>3, <1>4, <1>5, Zenon

(* What Observe leaves of a canary of the target: its position and its     *)
(* failures, and a readiness clock that runs only for a candidate that is  *)
(* complete now and, if it has run before, has not changed.                *)
InScope(in) == in.state.scopeReady /\ in.state.readiness.uid \in {NoUID, in.dep.uid}

Sighted(in, o) ==
  /\ o \in InputType /\ isActive(o.state.phase)
  /\ o.plan = in.plan /\ o.total = in.total /\ o.dep = in.dep /\ o.target = in.target
  /\ o.state.phase = "Paused" => in.state.phase = "Paused"
  /\ o.state.revision = in.state.revision /\ o.state.step = in.state.step
  /\ o.state.failedChecks = in.state.failedChecks /\ o.state.startedAt = in.state.startedAt
  /\ o.state.readiness = ReadinessTarget(in)
  /\ o.state.availableSince # NoTime =>
       /\ IsReady(in)
       /\ \/ o.state.availableSince = 0
          \/ /\ o.state.availableSince = in.state.availableSince
             /\ in.state.readiness = ReadinessTarget(in)

LEMMA ObserveSights ==
  ASSUME NEW in \in InputType, isActive(in.state.phase), in.state.revision = in.target
  PROVE  /\ Sighted(in, Observe(in)) /\ Observe(in).round \in {in.round, NoRound}
         /\ Observe(in).state.scopeReady => InScope(in)
  <1> DEFINE s == in.state
             new == ReadinessTarget(in)
             ready == IsReady(in)
             scoped == s.scopeReady /\ s.readiness.uid \in {NoUID, new.uid}
  <1>1. /\ s \in MachineState /\ NoRound \in Verdicts \cup {NoRound}
        /\ new.uid = in.dep.uid /\ new \in ReadinessType
    BY ReadinessTyped, Zenon DEF InputType, ReadinessTarget
  <1>2. CASE new # s.readiness \/ ~ready
    <2> DEFINE a == IF ready THEN 0 ELSE NoTime
               t == [s EXCEPT !.scopeReady = scoped, !.readiness = new,
                              !.availableSince = a,
                              !.lastAnalysis = NoTime, !.consecErr = 0,
                              !.consecInconcl = 0, !.phase = "Waiting"]
               o == [in EXCEPT !.round = NoRound, !.state = t]
    <2>1. Observe(in) = o
      BY <1>2, Zenon DEF Observe
    <2>2. /\ 0 \in Ages /\ NoTime \in Ages /\ scoped \in BOOLEAN
          /\ "Waiting" \in Phases \cup {"Waiting"} /\ 0 \in Nat
      BY Zenon DEF Ages
    <2>3. a \in Ages /\ (a # NoTime => ready /\ a = 0)
      BY <2>2, Zenon
    <2>4. scoped => InScope(in)
      BY <1>1, Zenon DEF InScope
    <2> HIDE DEF new, scoped, ready, a
    <2>5. /\ t \in MachineState /\ t.revision = s.revision /\ t.step = s.step
          /\ t.phase = "Waiting" /\ t.failedChecks = s.failedChecks
          /\ t.startedAt = s.startedAt /\ t.readiness = new /\ t.availableSince = a
          /\ t.scopeReady = scoped
      BY <1>1, <2>2, <2>3, Zenon DEF MachineState
    <2> HIDE DEF t
    <2>6. /\ o \in InputType /\ o.state = t /\ o.plan = in.plan /\ o.target = in.target
          /\ o.total = in.total /\ o.dep = in.dep /\ o.round = NoRound
      BY <1>1, <2>5, Zenon DEF InputType
    <2> HIDE DEF o
    <2>7. Sighted(in, o)
      BY <2>3, <2>5, <2>6, Zenon DEF Sighted, isActive, new, ready
    <2>8. QED
      BY <2>1, <2>4, <2>5, <2>6, <2>7, Zenon
  <1>3. CASE new = s.readiness /\ ready
    <2> DEFINE a == IF s.availableSince = NoTime THEN 0 ELSE s.availableSince
               t == [s EXCEPT !.availableSince = a]
               o == [in EXCEPT !.state = t]
    <2>1. Observe(in) = o
      <3>1. Observe(in) = [in EXCEPT !.state.availableSince = IF @ = NoTime THEN 0 ELSE @]
        BY <1>3, Zenon DEF Observe
      <3>2. QED
        BY <3>1, Zenon
    <2>2. a \in Ages /\ (a = 0 \/ a = s.availableSince)
      BY <1>1, Zenon DEF MachineState, Ages
    <2>3. s.scopeReady => InScope(in)
      BY <1>1, <1>3, Zenon DEF InScope
    <2> HIDE DEF a
    <2>4. /\ t \in MachineState /\ t.revision = s.revision /\ t.step = s.step
          /\ t.phase = s.phase /\ t.failedChecks = s.failedChecks
          /\ t.startedAt = s.startedAt /\ t.readiness = s.readiness
          /\ t.availableSince = a /\ t.scopeReady = s.scopeReady
      BY <1>1, <2>2, Zenon DEF MachineState
    <2> HIDE DEF t
    <2>5. /\ o \in InputType /\ o.state = t /\ o.plan = in.plan /\ o.target = in.target
          /\ o.total = in.total /\ o.dep = in.dep /\ o.round = in.round
      BY <1>1, <2>4, Zenon DEF InputType
    <2> HIDE DEF o
    <2>6. Sighted(in, o)
      BY <1>3, <2>2, <2>4, <2>5, Zenon DEF Sighted
    <2>7. QED
      BY <2>1, <2>3, <2>4, <2>5, <2>6, Zenon
  <1>4. QED
    BY <1>2, <1>3, Zenon

(* Decide observes twice, before the round and after it.                   *)
LEMMA SameCandidate ==
  ASSUME NEW in, NEW o, Sighted(in, o)
  PROVE  ReadinessTarget(o) = ReadinessTarget(in) /\ (IsReady(o) <=> IsReady(in))
  <1>1. ReadinessTarget(o) = ReadinessTarget(in)
    BY Zenon DEF Sighted, ReadinessTarget, currentWeight, splitFor
  <1>2. QED
    BY <1>1, Zenon DEF IsReady, Sighted

LEMMA SightedTwice ==
  ASSUME NEW in, NEW o, NEW p, Sighted(in, o), Sighted(o, p)
  PROVE  Sighted(in, p)
  <1>1. ReadinessTarget(o) = ReadinessTarget(in) /\ (IsReady(o) <=> IsReady(in))
    BY SameCandidate, Zenon
  <1>2. p.state.availableSince # NoTime =>
          /\ IsReady(in)
          /\ \/ p.state.availableSince = 0
             \/ /\ p.state.availableSince = in.state.availableSince
                /\ in.state.readiness = ReadinessTarget(in)
    BY <1>1, Zenon DEF Sighted
  <1>3. QED
    BY <1>1, <1>2, Zenon DEF Sighted

LEMMA StillRunning ==
  ASSUME NEW in, NEW o, Sighted(in, o), o.state.availableSince # NoTime
  PROVE  Observe(o) = o
  <1>1. ReadinessTarget(o) = o.state.readiness /\ IsReady(o)
    BY SameCandidate, Zenon DEF Sighted
  <1>2. \/ Observe(o) = o
        \/ Observe(o) = [o EXCEPT !.state.availableSince = IF @ = NoTime THEN 0 ELSE @]
    BY <1>1, Zenon DEF Observe
  <1>3. o \in InputType /\ o.state \in MachineState
    BY Zenon DEF Sighted, InputType
  <1> DEFINE s == o.state
             t == [s EXCEPT !.availableSince = s.availableSince]
  <1>4. [o EXCEPT !.state.availableSince = IF @ = NoTime THEN 0 ELSE @] = [o EXCEPT !.state = t]
    BY Zenon
  <1>5. t = s
    BY <1>3 DEF MachineState
  <1>6. [o EXCEPT !.state = o.state] = o
    BY <1>3 DEF InputType
  <1>7. QED
    BY <1>2, <1>4, <1>5, <1>6, Zenon

(* A pass over a canary of the target decides about an observation of it:  *)
(* with the round's verdict if one was due and scoped, without if not.     *)
LEMMA DecideFollows ==
  ASSUME NEW in \in InputType, Fallback(in), in.round = NoRound,
         isActive(in.state.phase), in.state.revision = in.target,
         NEW scoped \in BOOLEAN, NEW checks \in SUBSET Verdicts
  PROVE  \E o : /\ Sighted(in, o) /\ Follows(o, o.state, Decide(in, scoped, checks))
                /\ IF RoundDue(in) /\ ScopeKnown(in, scoped)
                   THEN /\ o.round = Aggregate(checks) /\ DueForAnalysis(o.plan, o.state)
                        /\ scoped \/ InScope(in)
                   ELSE o.round = NoRound /\ (o.state.scopeReady => InScope(in))
  <1> DEFINE seen  == Observe(in)
             v     == Aggregate(checks)
             asked == [seen EXCEPT !.state.scopeReady = TRUE, !.round = v]
             again == Observe(seen)
             out   == NextPosition(seen)
             held  == [out EXCEPT !.reason = "MetricsScopePending",
                                  !.requeue = soonest(@, in.plan.interval)]
  <1>1. /\ Sighted(in, seen) /\ seen.round = NoRound
        /\ seen.state.scopeReady => InScope(in)
    BY ObserveSights, Zenon
  <1>2. v \in Verdicts \cup {NoRound}
    BY AggregateTyped, Zenon
  <1>3. seen \in InputType /\ Fallback(seen)
    BY ObserveObserved, Zenon DEF Observed
  <1>4. ScopeKnown(in, scoped) => scoped \/ InScope(in)
    BY <1>1, Zenon DEF ScopeKnown
  <1>5. RoundDue(in) => DueForAnalysis(seen.plan, seen.state)
    BY <1>1, Zenon DEF RoundDue, Sighted
  <1>6. out = Dispatch(again, again.state)
    BY Zenon DEF NextPosition
  <1> HIDE DEF seen, v
  <1>7. /\ seen.state \in MachineState /\ isActive(seen.state.phase)
        /\ seen.state.revision = seen.target /\ seen.plan = in.plan
    BY <1>1, <1>3, Zenon DEF Sighted, InputType
  <1>8. CASE RoundDue(in) /\ ScopeKnown(in, scoped)
    <2> DEFINE t == [seen.state EXCEPT !.scopeReady = TRUE]
               o == [seen EXCEPT !.state = t, !.round = v]
    <2>1. asked = o
      BY <1>3, Zenon DEF InputType
    <2>2. /\ t \in MachineState /\ t.phase = seen.state.phase /\ t.step = seen.state.step
          /\ t.revision = seen.state.revision /\ t.failedChecks = seen.state.failedChecks
          /\ t.startedAt = seen.state.startedAt /\ t.readiness = seen.state.readiness
          /\ t.availableSince = seen.state.availableSince
          /\ t.lastAnalysis = seen.state.lastAnalysis
      BY <1>7, Zenon DEF MachineState
    <2> HIDE DEF t
    <2>3. /\ o \in InputType /\ o.state = t /\ o.plan = seen.plan /\ o.total = seen.total
          /\ o.dep = seen.dep /\ o.target = seen.target /\ o.round = v
      BY <1>2, <1>3, <2>2, Zenon DEF InputType
    <2> HIDE DEF o
    <2>4. Sighted(in, o)
      BY <1>1, <2>2, <2>3, Zenon DEF Sighted
    <2>5. DueForAnalysis(o.plan, o.state)
      BY <1>5, <1>8, <2>2, <2>3, Zenon DEF DueForAnalysis, Warm
    <2>6. Observe(o) = o
      <3>1. o.state.availableSince # NoTime
        BY <2>5, Zenon DEF DueForAnalysis, Warm
      <3>2. QED
        BY <2>4, <3>1, StillRunning, Zenon
    <2>7. Decide(in, scoped, checks) = Dispatch(o, o.state)
      <3>1. Decide(in, scoped, checks) = NextPosition(asked)
        BY <1>8, Zenon DEF Decide, seen, v
      <3>2. NextPosition(o) = Dispatch(o, o.state)
        BY <2>6, Zenon DEF NextPosition
      <3> HIDE DEF asked
      <3>3. QED
        BY <2>1, <3>1, <3>2, Zenon
    <2>8. Follows(o, o.state, Dispatch(o, o.state))
      <3>1. isActive(o.state.phase) /\ o.state.revision = o.target
        BY <1>7, <2>2, <2>3, Zenon
      <3>2. QED
        BY <2>3, <3>1, DispatchFollows, Zenon
    <2>9. QED
      BY <1>4, <1>8, <2>3, <2>4, <2>5, <2>7, <2>8, Zenon DEF v
  <1>9. CASE ~(RoundDue(in) /\ ScopeKnown(in, scoped))
    <2>1. /\ Sighted(seen, again) /\ again.round = NoRound
          /\ again.state.scopeReady => InScope(seen)
      BY <1>1, <1>3, <1>7, ObserveSights, Zenon
    <2>2. Sighted(in, again)
      BY <1>1, <2>1, SightedTwice, Zenon
    <2>3. again.state.scopeReady => InScope(in)
      BY <1>1, <2>1, Zenon DEF InScope
    <2>4. Follows(again, again.state, out)
      <3>1. /\ again \in InputType /\ isActive(again.state.phase)
            /\ again.state.revision = again.target
        BY <1>7, <2>1, Zenon DEF Sighted
      <3> HIDE DEF again
      <3>2. QED
        BY <1>6, <3>1, DispatchFollows, Zenon
    <2>5. Follows(again, again.state, held)
      <3>1. out \in OutputType
        BY <1>3, NextMeets, Zenon DEF Meets
      <3> HIDE DEF out, again
      <3>2. held.action = out.action /\ held.state = out.state
        BY <3>1, Zenon DEF OutputType
      <3> HIDE DEF held
      <3>3. QED
        BY <2>4, <3>2, Zenon DEF Follows, Restarts, Waits, Passes
    <2>6. Decide(in, scoped, checks) \in {out, held}
      BY <1>9, Zenon DEF Decide, seen
    <2> HIDE DEF again, out, held
    <2>7. QED
      BY <1>9, <2>1, <2>2, <2>3, <2>4, <2>5, <2>6, Zenon
  <1>10. QED
    BY <1>8, <1>9, Zenon

(* A canary of another revision than the target starts over or waits for   *)
(* room, and no round is due for it; where no canary is in flight, none    *)
(* pauses.                                                                 *)
LEMMA DecideRestarts ==
  ASSUME NEW in \in InputType, isActive(in.state.phase), in.state.revision # in.target,
         NEW scoped, NEW checks
  PROVE  LET out == Decide(in, scoped, checks)
         IN  /\ ~RoundDue(in)
             /\ \/ Restarts(out) \/ out.action = "Rollback"
                \/ out.action = "Wait" /\ out.state.startedAt = NoTime
  <1>1. Observe(in) = in /\ ~RoundDue(in)
    BY Zenon DEF Observe, RoundDue
  <1>2. Decide(in, scoped, checks) = Dispatch(in, in.state)
    BY <1>1, Zenon DEF Decide, NextPosition
  <1>3. QED
    BY <1>1, <1>2, DispatchFollows, Zenon

LEMMA DecideBegins ==
  ASSUME NEW in \in InputType, ~isActive(in.state.phase), NEW scoped, NEW checks
  PROVE  LET out == Decide(in, scoped, checks)
         IN  /\ ~RoundDue(in)
             /\ \/ Restarts(out) \/ out.action \in {"None", "Promote"}
                \/ out.action = "Wait" /\ out.state.startedAt = NoTime
  <1>1. Observe(in) = in
    BY Zenon DEF Observe
  <1>2. ~RoundDue(in)
    BY <1>1, Zenon DEF RoundDue, DueForAnalysis, isActive
  <1>3. Decide(in, scoped, checks) = Dispatch(in, in.state)
    BY <1>1, <1>2, Zenon DEF Decide, NextPosition
  <1>4. in.state.phase \in {"Promoting", "Idle", "RollingBack"}
    BY Zenon DEF InputType, MachineState, Phases, isActive
  <1>5. Dispatch(in, in.state) \in {promoting(in, in.state), begin(in)}
    BY <1>4, Zenon DEF Dispatch
  <1>6. \A s : Promote(in, s).action = "Promote"
    BY Zenon DEF Promote, Alone
  <1>7. \A r : Idle(in, r).action = "None"
    BY Zenon DEF Idle, Alone
  <1>8. \/ Restarts(startOrHold(in))
        \/ startOrHold(in).action = "Wait" /\ startOrHold(in).state.startedAt = NoTime
    BY startParts, Zenon DEF startOrHold
  <1>9. \/ Restarts(begin(in)) \/ begin(in).action \in {"None", "Promote"}
        \/ begin(in).action = "Wait" /\ begin(in).state.startedAt = NoTime
    BY <1>6, <1>7, <1>8, Zenon DEF begin
  <1>10. \/ Restarts(promoting(in, in.state))
         \/ promoting(in, in.state).action \in {"None", "Promote"}
         \/ /\ promoting(in, in.state).action = "Wait"
            /\ promoting(in, in.state).state.startedAt = NoTime
    BY <1>6, <1>7, <1>9, Zenon DEF promoting
  <1>11. QED
    BY <1>2, <1>3, <1>5, <1>9, <1>10, Zenon

(* The verdict of a round, from its checks (Aggregate).                    *)
LEMMA AggregateMeans ==
  ASSUME NEW checks \in SUBSET Verdicts
  PROVE  /\ Aggregate(checks) = "Pass" => checks = {"Pass"}
         /\ ("Fail" \in checks /\ "Error" \notin checks) => Aggregate(checks) = "Fail"
         /\ Aggregate(checks) # NoRound
  <1>1. /\ rank("Pass") = 0 /\ rank("Inconclusive") = 1
        /\ rank("Fail") = 2 /\ rank("Error") = 3
    BY Zenon DEF rank
  <1>2. \A w \in checks : w \in {"Pass", "Inconclusive", "Fail", "Error"}
    BY Zenon DEF Verdicts
  <1>3. Aggregate(checks) # NoRound
    BY AggregateTyped, Zenon DEF Verdicts, NoRound
  <1> DEFINE v == Aggregate(checks)
  <1>4. checks # {} => v \in checks /\ \A w \in checks : rank(w) <= rank(v)
    BY WorstCheck, Zenon DEF Aggregate
  <1>5. checks = {} => v = "Error"
    BY Zenon DEF Aggregate
  <1> HIDE DEF v
  <1>6. ASSUME v = "Pass" PROVE checks = {"Pass"}
    <2>1. v \in checks /\ \A w \in checks : rank(w) <= 0
      BY <1>1, <1>4, <1>5, <1>6, Zenon
    <2>2. \A w \in checks : w = "Pass"
      BY <1>1, <1>2, <2>1
    <2>3. QED
      BY <1>6, <2>1, <2>2, Zenon
  <1>7. ASSUME "Fail" \in checks, "Error" \notin checks PROVE v = "Fail"
    <2>1. v \in checks /\ rank("Fail") <= rank(v)
      BY <1>4, <1>7, Zenon
    <2>2. v \in {"Pass", "Inconclusive", "Fail"}
      BY <1>2, <1>7, <2>1, Zenon
    <2>3. ~(2 <= 0) /\ ~(2 <= 1)
      OBVIOUS
    <2>4. QED
      BY <1>1, <2>1, <2>2, <2>3, Zenon
  <1>8. QED
    BY <1>3, <1>6, <1>7, Zenon DEF v

-----------------------------------------------------------------------------
(* EveryRungEarned and FailureBudgetSpent are about single steps, and hold *)
(* only because status and history agree on the trial so far.  Of a canary *)
(* whose clock has started: no failure was counted in history and not in   *)
(* status; every rung below the present one, and the present one of a      *)
(* canary that awaits approval, has been passed; the readiness clock has   *)
(* not run for longer than the candidate was seen complete and unchanged;  *)
(* and a scope that is taken for granted was established for this very     *)
(* Deployment.                                                             *)
Tested(s) == isActive(s.phase) /\ (s.startedAt # NoTime \/ s.phase = "Paused")

Earned(s, h) ==
  /\ h.fails <= s.failedChecks
  /\ 0..(s.step - 1) \subseteq h.passed
  /\ s.phase = "Paused" => 0..s.step \subseteq h.passed
  /\ s.availableSince # NoTime =>
       h.seen.key = s.readiness /\ h.seen.age # NoTime /\ h.seen.age >= s.availableSince
  /\ s.scopeReady => h.scopedFor = s.readiness.uid /\ s.readiness.uid # NoUID

TrialInv == Tested(st) => Earned(st, hist)

EInv == IInv /\ TrialInv

LEMMA NotedSeen ==
  ASSUME IInv, NEW scoped, NEW checks, NEW judged, NEW res
  PROVE  LET key == ReadinessTarget(Input)
         IN  Noted(scoped, checks, judged, res).seen =
               IF ~Complete THEN NothingSeen
               ELSE IF hist.seen.key = key /\ hist.seen.age # NoTime THEN hist.seen
               ELSE [key |-> key, age |-> 0]
  BY ZenonT(30) DEF Noted, IInv, TypeOK, HistoryType

LEMMA NotedTrial ==
  ASSUME IInv, NEW scoped, NEW checks, NEW judged, NEW res
  PROVE  LET h   == Noted(scoped, checks, judged, res)
             new == res.out.action = "Start"
             bad == judged /\ "Fail" \in checks /\ "Error" \notin checks
         IN  /\ judged /\ scoped => h.scopedFor = dep.uid
             /\ ~(judged /\ scoped) => h.scopedFor = hist.scopedFor
             /\ new => h.passed = {} /\ h.fails = 0
             /\ ~new => hist.passed \subseteq h.passed
             /\ (/\ ~new /\ judged /\ checks = {"Pass"} /\ h.scopedFor = dep.uid
                 /\ h.seen.age >= plan.initialDelay + plan.window) => st.step \in h.passed
             /\ ~new /\ bad => h.fails = hist.fails + 1
             /\ ~new /\ ~bad => h.fails = hist.fails
  <1> DEFINE h    == Noted(scoped, checks, judged, res)
             new  == res.out.action = "Start"
             for  == IF judged /\ scoped THEN dep.uid ELSE hist.scopedFor
             good == /\ judged /\ checks = {"Pass"} /\ for = dep.uid
                     /\ h.seen.age >= plan.initialDelay + plan.window
             bad  == judged /\ "Fail" \in checks /\ "Error" \notin checks
  <1>1. h.scopedFor = for
    BY ZenonT(30) DEF Noted, IInv, TypeOK, HistoryType
  <1>2. h.passed = IF new THEN {} ELSE IF good THEN hist.passed \cup {st.step} ELSE hist.passed
    BY ZenonT(30) DEF Noted, IInv, TypeOK, HistoryType
  <1>3. h.fails = IF new THEN 0 ELSE IF bad THEN hist.fails + 1 ELSE hist.fails
    BY ZenonT(30) DEF Noted, IInv, TypeOK, HistoryType
  <1> HIDE DEF h
  <1>4. QED
    BY <1>1, <1>2, <1>3, Zenon DEF h

LEMMA NotedFails ==
  ASSUME IInv, NEW scoped, NEW checks, NEW judged, NEW res
  PROVE  LET h == Noted(scoped, checks, judged, res)
         IN  /\ res.out.action = "Start" => h.passed = {} /\ h.fails = 0
             /\ res.out.action # "Start" /\ ~judged => h.fails = hist.fails
  BY NotedTrial

LEMMA PersistedKeeps ==
  ASSUME NEW out \in OutputType
  PROVE  LET s == Persisted(out)
         IN  /\ Stays(out.state, s) /\ s.failedChecks = out.state.failedChecks
             /\ s.startedAt = out.state.startedAt /\ s.phase = PhaseFrom(out.action)
  <1>1. out.state \in MachineState
    BY Zenon DEF OutputType
  <1>2. QED
    BY <1>1, Zenon DEF Persisted, Stays, MachineState

(* A candidate whose readiness clock runs is complete, and has room.       *)
LEMMA ReadyHasRoom ==
  ASSUME IInv, st.revision = target, NEW o, Sighted(Input, o),
         o.state.availableSince # NoTime
  PROVE  /\ Complete /\ dep.uid # NoUID /\ ~Cramped(o, o.state)
         /\ o.state.readiness = ReadinessTarget(Input)
  <1> DEFINE key == ReadinessTarget(Input)
  <1>1. /\ Input.state = st /\ Input.dep = dep /\ Input.total = total
        /\ Input.plan = plan /\ Input \in InputType
    BY InputTyped, Zenon DEF Input
  <1>2. IsReady(Input) /\ o.state.readiness = key
    BY Zenon DEF Sighted
  <1>3. Complete /\ dep.uid # NoUID
    <2>1. key.canary = Split(total, currentWeight(plan, st)).canary
      BY <1>1, ReadinessTyped, Zenon DEF splitFor
    <2>2. QED
      BY <1>1, <1>2, <2>1, Zenon DEF Complete, IsReady
  <1>4. ~Cramped(o, o.state)
    <2>1. ReadinessTarget(o) = key /\ o \in InputType
      BY SameCandidate, Zenon DEF Sighted
    <2>2. key.canary > 0 /\ key.canary \in Nat
      BY <1>1, <1>2, ReadinessTyped, Zenon DEF IsReady
    <2>3. splitFor(o, currentWeight(o.plan, o.state)).canary = key.canary
      BY <2>1, ReadinessTyped, Zenon
    <2>4. key.canary # 0
      BY <2>2
    <2>5. QED
      BY <2>3, <2>4, Zenon DEF Cramped
  <1>5. QED
    BY <1>2, <1>3, <1>4, Zenon

(* What the observed readiness clock says is what history has seen.        *)
LEMMA SeenAsLong ==
  ASSUME EInv, Tested(st), st.revision = target, NEW o, Sighted(Input, o),
         o.state.availableSince # NoTime,
         NEW scoped, NEW checks, NEW judged, NEW res
  PROVE  LET h == Noted(scoped, checks, judged, res)
         IN  /\ h.seen.key = o.state.readiness /\ h.seen.age \in Nat
             /\ h.seen.age >= o.state.availableSince
  <1> DEFINE h   == Noted(scoped, checks, judged, res)
             key == ReadinessTarget(Input)
  <1>1. Input.state = st /\ Complete /\ o.state.readiness = key
    BY ReadyHasRoom, Zenon DEF EInv, Input
  <1>2. h.seen = IF hist.seen.key = key /\ hist.seen.age # NoTime THEN hist.seen
                 ELSE [key |-> key, age |-> 0]
    <2>1. h.seen = IF ~Complete THEN NothingSeen
                   ELSE IF hist.seen.key = key /\ hist.seen.age # NoTime THEN hist.seen
                   ELSE [key |-> key, age |-> 0]
      BY NotedSeen DEF EInv
    <2> HIDE DEF h, key
    <2>2. QED
      BY <1>1, <2>1, Zenon
  <1>3. hist.seen.age \in Nat \cup {NoTime} /\ hist.seen \in [key : ReadinessType, age : Ages]
    BY Zenon DEF EInv, IInv, TypeOK, HistoryType, Ages
  <1> HIDE DEF h, key
  <1>4. h.seen.key = key /\ h.seen.age \in Nat
    BY <1>2, <1>3
  <1>5. h.seen.age >= o.state.availableSince
    <2>1. CASE o.state.availableSince = 0
      BY <1>4, <2>1
    <2>2. CASE o.state.availableSince = st.availableSince /\ st.readiness = key
      <3>1. /\ hist.seen.key = key /\ hist.seen.age # NoTime
            /\ hist.seen.age >= st.availableSince
        BY <2>2, Zenon DEF EInv, TrialInv, Earned
      <3>2. QED
        BY <1>2, <2>2, <3>1, Zenon
    <2>3. QED
      BY <1>1, <2>1, <2>2, Zenon DEF Sighted, key
  <1>6. QED
    BY <1>1, <1>4, <1>5, Zenon DEF h

(* A scope taken for granted was established for this Deployment.          *)
LEMMA ScopedForThis ==
  ASSUME EInv, Tested(st), InScope(Input)
  PROVE  hist.scopedFor = dep.uid /\ dep.uid # NoUID
  <1>1. Input.state = st /\ Input.dep = dep
    BY Zenon DEF Input
  <1>2. QED
    BY <1>1, Zenon DEF EInv, TrialInv, Earned, InScope

(* A canary that has just started owes history nothing, and one whose      *)
(* clock has not started is not on trial yet.                              *)
LEMMA FreshTrial ==
  ASSUME NEW out \in OutputType, NEW h
  PROVE  /\ Restarts(out) /\ h.passed = {} /\ h.fails = 0 => Earned(Persisted(out), h)
         /\ out.action = "Wait" /\ out.state.startedAt = NoTime => ~Tested(Persisted(out))
  <1> DEFINE s == Persisted(out)
  <1>1. /\ Stays(out.state, s) /\ s.failedChecks = out.state.failedChecks
        /\ s.startedAt = out.state.startedAt /\ s.phase = PhaseFrom(out.action)
    BY PersistedKeeps, Zenon
  <1>2. PhaseFrom("Wait") = "Progressing" /\ PhaseFrom("Start") = "Progressing"
    BY DEF PhaseFrom
  <1> HIDE DEF s
  <1>3. ASSUME Restarts(out), h.passed = {}, h.fails = 0 PROVE Earned(s, h)
    <2>1. /\ s.step = 0 /\ s.failedChecks = 0 /\ s.availableSince = NoTime
          /\ ~s.scopeReady /\ s.phase = "Progressing"
      BY <1>1, <1>2, <1>3, Zenon DEF Restarts, Stays
    <2>2. QED
      BY <1>3, <2>1 DEF Earned
  <1>4. ASSUME out.action = "Wait", out.state.startedAt = NoTime PROVE ~Tested(s)
    <2>1. s.phase # "Paused"
      BY <1>1, <1>2, <1>4
    <2>2. QED
      BY <1>1, <1>4, <2>1, Zenon DEF Tested
  <1>5. QED
    BY <1>3, <1>4, Zenon DEF s

(* A pass over a canary of the target: what becomes of status is earned by *)
(* what becomes of history, the canary pauses or is promoted on evidence   *)
(* only, and a failure that reaches the threshold rolls it back.           *)
LEMMA PassEarns ==
  ASSUME EInv, isActive(st.phase), st.revision = target,
         NEW scoped \in BOOLEAN, NEW checks \in SUBSET Verdicts, NEW res,
         res.out.action = Decide(Input, scoped, checks).action
  PROVE  LET out == Decide(Input, scoped, checks)
             h   == Noted(scoped, checks, RoundDue(Input) /\ ScopeKnown(Input, scoped), res)
             s   == Persisted(out)
         IN  /\ out.action \in Running /\ Tested(s) => Earned(s, h)
             /\ (out.action \in {"Pause", "Promote"} /\ plan.onInconclusive # "Promote")
                  => /\ 0..st.step \subseteq h.passed
                     /\ st.phase = "Paused" \/ st.step >= Len(plan.weights) - 1
             /\ (h.fails > hist.fails /\ h.fails >= plan.failureThreshold)
                  => out.action = "Rollback"
  <1> DEFINE judged == RoundDue(Input) /\ ScopeKnown(Input, scoped)
             out == Decide(Input, scoped, checks)
             h   == Noted(scoped, checks, judged, res)
             s   == Persisted(out)
             t   == out.state
             v   == Aggregate(checks)
             new == res.out.action = "Start"
             bad == judged /\ "Fail" \in checks /\ "Error" \notin checks
  <1>1. /\ Input.state = st /\ Input.dep = dep /\ Input.target = target
        /\ Input.plan = plan /\ Input.round = NoRound
        /\ Input \in InputType /\ Fallback(Input)
    BY InputTyped, Zenon DEF EInv, Input
  <1>2. PICK o : /\ Sighted(Input, o) /\ Follows(o, o.state, out)
                 /\ IF judged
                    THEN /\ o.round = v /\ DueForAnalysis(o.plan, o.state)
                         /\ scoped \/ InScope(Input)
                    ELSE o.round = NoRound /\ (o.state.scopeReady => InScope(Input))
    BY <1>1, DecideFollows, Zenon
  <1>3. out \in OutputType
    BY <1>1, DecideMeets, Zenon DEF Meets
  <1>4. res.out.action = out.action
    BY Zenon
  <1> HIDE DEF judged, out, v
  <1>5. /\ o.plan = plan /\ o.state.step = st.step
        /\ o.state.failedChecks = st.failedChecks /\ o.state.startedAt = st.startedAt
        /\ o.state.phase = "Paused" => st.phase = "Paused"
        /\ o.state.readiness.uid = dep.uid
    <2>1. ReadinessTarget(Input).uid = dep.uid
      BY <1>1, Zenon DEF ReadinessTarget
    <2>2. QED
      BY <1>1, <1>2, <2>1, Zenon DEF Sighted
  <1>6. /\ Stays(t, s) /\ s.failedChecks = t.failedChecks
        /\ s.startedAt = t.startedAt /\ s.phase = PhaseFrom(out.action)
    BY <1>3, PersistedKeeps, Zenon
  <1>7. /\ v = "Pass" => checks = {"Pass"}
        /\ ("Fail" \in checks /\ "Error" \notin checks) => v = "Fail"
        /\ v # NoRound
    BY AggregateMeans, Zenon DEF v
  <1>8. /\ judged /\ scoped => h.scopedFor = dep.uid
        /\ ~(judged /\ scoped) => h.scopedFor = hist.scopedFor
        /\ new => h.passed = {} /\ h.fails = 0
        /\ ~new => hist.passed \subseteq h.passed
        /\ (/\ ~new /\ judged /\ checks = {"Pass"} /\ h.scopedFor = dep.uid
            /\ h.seen.age >= plan.initialDelay + plan.window) => st.step \in h.passed
        /\ ~new /\ bad => h.fails = hist.fails + 1
        /\ ~new /\ ~bad => h.fails = hist.fails
    <2>1. IInv
      BY Zenon DEF EInv
    <2>2. QED
      BY <2>1, NotedTrial, ZenonT(40)
  <1>9. /\ st.step \in Nat /\ st.failedChecks \in Nat /\ hist.fails \in Nat
        /\ plan.failureThreshold \in Nat /\ plan.initialDelay \in Nat /\ plan.window \in Nat
    BY SpecAssumption, Zenon DEF EInv, IInv, TypeOK, StateType, HistoryType, PlanType
  <1>10. ASSUME o.state.availableSince # NoTime
        PROVE  /\ dep.uid # NoUID /\ ~Cramped(o, o.state)
               /\ Tested(st) => /\ h.seen.key = o.state.readiness /\ h.seen.age \in Nat
                                /\ h.seen.age >= o.state.availableSince
    <2>1. dep.uid # NoUID /\ ~Cramped(o, o.state)
      BY <1>2, <1>10, ReadyHasRoom, Zenon DEF EInv
    <2>2. Tested(st) => /\ h.seen.key = o.state.readiness /\ h.seen.age \in Nat
                        /\ h.seen.age >= o.state.availableSince
      BY <1>2, <1>10, SeenAsLong
    <2>3. QED
      BY <2>1, <2>2, Zenon
  <1>11. ASSUME Tested(st), InScope(Input) PROVE hist.scopedFor = dep.uid /\ dep.uid # NoUID
    BY <1>11, ScopedForThis, Zenon
  <1> HIDE DEF h, s, new, bad
  <1>12. judged => /\ o.state.availableSince # NoTime /\ o.state.phase # "Paused"
                   /\ o.state.availableSince >= plan.initialDelay + plan.window
                   /\ Judging(o, o.state)
    BY <1>2, <1>5, <1>7, Zenon DEF DueForAnalysis, Warm, Judging
  <1>13. Judging(o, o.state) => judged /\ o.round = v
    BY <1>2, Zenon DEF Judging
  <1>14. bad => Judging(o, o.state) /\ o.round = "Fail"
    BY <1>2, <1>7, <1>12, Zenon DEF bad
  <1>15. PhaseFrom("Wait") = "Progressing" /\ PhaseFrom("Advance") = "Progressing"
         /\ PhaseFrom("Start") = "Progressing" /\ PhaseFrom("Pause") = "Paused"
    BY Zenon DEF PhaseFrom
  <1> DEFINE C1 == out.action \in Running /\ Tested(s) => Earned(s, h)
             C2 == (out.action \in {"Pause", "Promote"} /\ plan.onInconclusive # "Promote")
                     => /\ 0..st.step \subseteq h.passed
                        /\ st.phase = "Paused" \/ st.step >= Len(plan.weights) - 1
             C3 == (h.fails > hist.fails /\ h.fails >= plan.failureThreshold)
                     => out.action = "Rollback"
  <1>16. SUFFICES C1 /\ C2 /\ C3
    BY Zenon DEF judged, out, h, s
  <1> HIDE DEF C1, C2, C3
  <1>17. Tested(st) /\ (judged \/ o.state.scopeReady)
           => h.scopedFor = dep.uid /\ dep.uid # NoUID
    BY <1>2, <1>8, <1>10, <1>11, <1>12, Zenon
  <1>18. Tested(st) /\ judged /\ v = "Pass" /\ ~new => st.step \in h.passed
    <2> SUFFICES ASSUME Tested(st), judged, v = "Pass", ~new PROVE st.step \in h.passed
      BY Zenon
    <2>1. /\ h.seen.age \in Nat /\ h.seen.age >= o.state.availableSince
          /\ o.state.availableSince >= plan.initialDelay + plan.window
      BY <1>10, <1>12, Zenon
    <2>2. o.state.availableSince \in Int
      BY <1>2 DEF Sighted, InputType, MachineState, Ages, NoTime
    <2>3. h.seen.age >= plan.initialDelay + plan.window
      BY <1>9, <2>1, <2>2
    <2>4. QED
      BY <1>7, <1>8, <1>17, <2>3, Zenon
  <1>19. Tested(st) => Earned(st, hist)
    BY Zenon DEF EInv, TrialInv
  <1>20. \A P : 0..(st.step - 1) \subseteq P /\ st.step \in P => 0..st.step \subseteq P
    BY <1>9
  <1>21. h.fails > hist.fails => bad /\ ~new /\ h.fails = hist.fails + 1
    BY <1>8, <1>9
  <1>22. CASE Restarts(out)
    <2>1. new /\ h.passed = {} /\ h.fails = 0
      BY <1>4, <1>8, <1>22, Zenon DEF Restarts, new
    <2>2. /\ s.step = 0 /\ s.failedChecks = 0 /\ s.availableSince = NoTime
          /\ ~s.scopeReady /\ s.phase = "Progressing"
      BY <1>6, <1>15, <1>22, Zenon DEF Restarts, Stays
    <2>3. Earned(s, h)
      BY <2>1, <2>2 DEF Earned
    <2>4. QED
      BY <1>21, <1>22, <2>1, <2>3, Zenon DEF C1, C2, C3, Restarts
  <1>23. CASE out.action = "Rollback"
    BY <1>23, Zenon DEF C1, C2, C3, Running
  <1>24. CASE out.action = "Wait" /\ t.startedAt = NoTime /\ Cramped(o, o.state)
    <2>1. ~Tested(s)
      BY <1>6, <1>15, <1>24, Zenon DEF Tested
    <2>2. ~judged
      BY <1>10, <1>12, <1>24, Zenon
    <2>3. QED
      BY <1>21, <1>24, <2>1, <2>2, Zenon DEF C1, C2, C3, bad
  <1>25. CASE Waits(o, o.state, out)
    <2>1. Tested(st) /\ ~new /\ out.action = "Wait" /\ Stays(o.state, t)
      BY <1>4, <1>5, <1>25, Zenon DEF Waits, Tested, new
    <2>2. /\ s.step = st.step /\ s.readiness = o.state.readiness
          /\ s.scopeReady = o.state.scopeReady
          /\ s.availableSince = o.state.availableSince
          /\ s.failedChecks = t.failedChecks /\ s.phase = "Progressing"
      BY <1>5, <1>6, <1>15, <2>1, Zenon DEF Stays
    <2>3. hist.fails <= st.failedChecks /\ 0..(st.step - 1) \subseteq hist.passed
      BY <1>19, <2>1, Zenon DEF Earned
    <2>4. ASSUME bad
          PROVE  h.fails <= t.failedChecks /\ ~(h.fails >= plan.failureThreshold)
      <3>1. /\ t.failedChecks = st.failedChecks + 1
            /\ t.failedChecks < plan.failureThreshold
        BY <1>5, <1>14, <1>25, <2>4, Zenon DEF Waits
      <3>2. h.fails = hist.fails + 1
        BY <1>8, <2>1, <2>4, Zenon
      <3>3. h.fails <= t.failedChecks /\ h.fails < plan.failureThreshold
        BY <1>9, <2>3, <3>1, <3>2
      <3>4. ~(h.fails >= plan.failureThreshold)
        BY <1>9, <3>2, <3>3
      <3>5. QED
        BY <3>3, <3>4, Zenon
    <2>5. ASSUME ~bad PROVE h.fails <= t.failedChecks
      <3>1. t.failedChecks \in {st.failedChecks, st.failedChecks + 1}
        BY <1>5, <1>25, Zenon DEF Waits
      <3>2. h.fails = hist.fails
        BY <1>8, <2>1, <2>5, Zenon
      <3>3. QED
        BY <1>9, <2>3, <3>1, <3>2
    <2>6. h.fails <= t.failedChecks /\ C3
      BY <1>21, <2>4, <2>5, Zenon DEF C3
    <2>7. Earned(s, h)
      <3>1. h.fails <= s.failedChecks
        BY <2>2, <2>6, Zenon
      <3>2. 0..(s.step - 1) \subseteq h.passed
        BY <1>8, <2>1, <2>2, <2>3, Zenon
      <3>3. s.phase # "Paused"
        BY <2>2
      <3>4. s.availableSince # NoTime
              => h.seen.key = s.readiness /\ h.seen.age # NoTime /\ h.seen.age >= s.availableSince
        <4> SUFFICES ASSUME o.state.availableSince # NoTime
                     PROVE  /\ h.seen.key = o.state.readiness /\ h.seen.age # NoTime
                            /\ h.seen.age >= o.state.availableSince
          BY <2>2, Zenon
        <4>1. /\ h.seen.key = o.state.readiness /\ h.seen.age \in Nat
              /\ h.seen.age >= o.state.availableSince
          BY <1>10, <2>1, Zenon
        <4>2. QED
          BY <4>1 DEF NoTime
      <3>5. s.scopeReady => h.scopedFor = s.readiness.uid /\ s.readiness.uid # NoUID
        BY <1>5, <1>17, <2>1, <2>2, Zenon
      <3>6. QED
        BY <3>1, <3>2, <3>3, <3>4, <3>5, Zenon DEF Earned
    <2>8. QED
      BY <2>1, <2>6, <2>7, Zenon DEF C1, C2
  <1>26. CASE Passes(o, o.state, out)
    <2>1. /\ Tested(st) /\ judged /\ v = "Pass" /\ ~new
          /\ t.failedChecks = st.failedChecks
          /\ t.readiness = o.state.readiness /\ t.scopeReady = o.state.scopeReady
          /\ out.action \in {"Pause", "Promote", "Advance"}
      BY <1>4, <1>2, <1>5, <1>13, <1>26, Zenon DEF Passes, Tested, new, Stays
    <2>2. ~bad /\ 0..st.step \subseteq h.passed /\ h.fails <= t.failedChecks
      <3>1. ~bad
        BY <1>7, <2>1, Zenon DEF bad
      <3>2. 0..(st.step - 1) \subseteq h.passed /\ hist.fails <= st.failedChecks
        BY <1>8, <1>19, <2>1, Zenon DEF Earned
      <3>3. 0..st.step \subseteq h.passed
        BY <1>18, <1>20, <2>1, <3>2, Zenon
      <3>4. QED
        BY <1>8, <2>1, <3>1, <3>2, <3>3, Zenon
    <2>3. s.scopeReady => h.scopedFor = s.readiness.uid /\ s.readiness.uid # NoUID
      BY <1>5, <1>6, <1>17, <2>1, Zenon DEF Stays
    <2>4. h.fails <= s.failedChecks
      BY <1>6, <2>2, Zenon
    <2>5. CASE /\ out.action \in {"Pause", "Promote"} /\ Stays(o.state, t)
               /\ o.state.step >= Len(o.plan.weights) - 1
      <3>1. /\ s.step = st.step /\ s.availableSince = o.state.availableSince
            /\ s.readiness = o.state.readiness
        BY <1>5, <1>6, <2>5, Zenon DEF Stays
      <3>2. 0..(s.step - 1) \subseteq h.passed /\ 0..s.step \subseteq h.passed
        BY <1>8, <1>19, <2>1, <2>2, <3>1, Zenon DEF Earned
      <3>3. s.availableSince # NoTime
              => h.seen.key = s.readiness /\ h.seen.age # NoTime /\ h.seen.age >= s.availableSince
        <4>1. o.state.availableSince # NoTime
                => /\ h.seen.key = o.state.readiness /\ h.seen.age \in Nat
                   /\ h.seen.age >= o.state.availableSince
          BY <1>10, <2>1, Zenon
        <4>2. h.seen.age \in Nat => h.seen.age # NoTime
          BY DEF NoTime
        <4>3. QED
          BY <3>1, <4>1, <4>2, Zenon
      <3>4. Earned(s, h)
        BY <2>3, <2>4, <3>2, <3>3, Zenon DEF Earned
      <3>5. C1
        BY <3>4, Zenon DEF C1
      <3>6. C2
        BY <1>5, <2>2, <2>5, Zenon DEF C2
      <3>7. QED
        BY <1>21, <2>2, <3>5, <3>6, Zenon DEF C3
    <2>6. CASE out.action = "Advance" /\ t.availableSince = NoTime /\ t.step = o.state.step + 1
      <3>1. s.step = st.step + 1 /\ s.availableSince = NoTime /\ s.phase = "Progressing"
        BY <1>5, <1>6, <1>15, <2>6, Zenon DEF Stays
      <3>2. s.step - 1 = st.step
        BY <1>9, <3>1
      <3>3. 0..(s.step - 1) \subseteq h.passed
        BY <2>2, <3>2, Zenon
      <3>4. s.phase # "Paused"
        BY <3>1
      <3>5. Earned(s, h)
        BY <2>3, <2>4, <3>1, <3>3, <3>4, Zenon DEF Earned
      <3>6. QED
        BY <1>21, <2>2, <2>6, <3>5, Zenon DEF C1, C2, C3
    <2>7. QED
      BY <1>26, <2>5, <2>6, Zenon DEF Passes
  <1>27. CASE /\ out.action \in {"Pause", "Promote"} /\ o.state.phase = "Paused"
              /\ Stays(o.state, t) /\ t.failedChecks = o.state.failedChecks
    <2>1. /\ Tested(st) /\ st.phase = "Paused" /\ ~new
          /\ s.step = st.step /\ s.failedChecks = st.failedChecks
          /\ s.readiness = o.state.readiness /\ s.scopeReady = o.state.scopeReady
          /\ s.availableSince = o.state.availableSince
      BY <1>4, <1>5, <1>6, <1>27, Zenon DEF Stays, Tested, new
    <2>2. ~judged /\ ~bad
      BY <1>2, <1>27, Zenon DEF DueForAnalysis, bad
    <2>3. /\ 0..(s.step - 1) \subseteq h.passed /\ 0..s.step \subseteq h.passed
          /\ h.fails <= s.failedChecks
      BY <1>8, <1>19, <2>1, <2>2, Zenon DEF Earned
    <2>4. s.availableSince # NoTime
            => h.seen.key = s.readiness /\ h.seen.age # NoTime /\ h.seen.age >= s.availableSince
      <3>1. o.state.availableSince # NoTime
              => /\ h.seen.key = o.state.readiness /\ h.seen.age \in Nat
                 /\ h.seen.age >= o.state.availableSince
        BY <1>10, <2>1, Zenon
      <3>2. h.seen.age \in Nat => h.seen.age # NoTime
        BY DEF NoTime
      <3>3. QED
        BY <2>1, <3>1, <3>2, Zenon
    <2>5. s.scopeReady => h.scopedFor = s.readiness.uid /\ s.readiness.uid # NoUID
      BY <1>5, <1>17, <2>1, Zenon
    <2>6. Earned(s, h)
      BY <2>3, <2>4, <2>5, Zenon DEF Earned
    <2>7. QED
      BY <1>21, <2>1, <2>2, <2>3, <2>6, Zenon DEF C1, C2, C3
  <1>28. CASE /\ out.action = "Promote" /\ o.round = "Inconclusive"
              /\ o.plan.onInconclusive = "Promote"
    <2>1. ~bad
      <3>1. ASSUME bad PROVE FALSE
        <4>1. o.round = "Fail"
          BY <1>2, <1>7, <3>1, Zenon DEF bad
        <4>2. QED
          BY <1>28, <4>1
      <3>2. QED
        BY <3>1, Zenon
    <2>2. QED
      BY <1>5, <1>21, <1>28, <2>1, Zenon DEF C1, C2, C3, Running
  <1>29. QED
    BY <1>2, <1>22, <1>23, <1>24, <1>25, <1>26, <1>27, <1>28, Zenon DEF Follows

-----------------------------------------------------------------------------
(* One pass keeps the account, and takes the two steps as promised. *)

RungEarned(s, h) ==
  (/\ isActive(st.phase) /\ s.phase \in {"Paused", "Promoting"}
   /\ s.phase # st.phase /\ plan.onInconclusive # "Promote")
    => /\ 0..st.step \subseteq h.passed
       /\ st.phase = "Progressing" => st.step >= Len(plan.weights) - 1

BudgetSpent(s, h) ==
  (h.fails > hist.fails /\ h.fails >= plan.failureThreshold)
    => s.phase = "RollingBack" /\ s.failed = st.revision

(* A pass acts as its plan did, whatever is then held back.                *)
LEMMA PlanOutcome ==
  ASSUME NEW in \in InputType, Fallback(in), NEW scoped \in BOOLEAN,
         NEW checks \in SUBSET Verdicts, NEW stalled
  PROVE  LET o   == Plan0(in, scoped, checks)
             res == planRollout(in, scoped, checks, stalled)
         IN  /\ res.out \in OutputType /\ res.out.action = o.action
             /\ res.out = o \/ (res.out.action \notin Running /\ res.out.state.failed = in.target)
             /\ o.action = "Rollback" => o.state.failed = in.state.revision
             /\ in.plan.isCanary => o = Decide(in, scoped, checks)
             /\ ~in.plan.isCanary => o.action = "None"
  <1> DEFINE o   == Plan0(in, scoped, checks)
             res == planRollout(in, scoped, checks, stalled)
  <1>1. res.out \in OutputType
    <2>1. Planned(in, res)
      BY planRolloutPlanned, Zenon
    <2>2. QED
      BY <2>1, Zenon DEF Planned, ResultType
  <1>2. planCanary(in, o).out = o
    BY PlanSteps, Zenon
  <1>3. \/ res = planCanary(in, o)
        \/ /\ res.out.action = o.action /\ res.out.action \notin Running
           /\ res.out.state.failed = in.target
    BY PlanShapes
  <1>4. Aims(in, o)
    BY PlanAims, Zenon
  <1> DEFINE rolling == Alone(in, EmptyState, "None", "CanaryNotRunning", 0, 0)
  <1>5. rolling.action = "None"
    BY Zenon DEF Alone
  <1> HIDE DEF rolling, res
  <1>6. /\ in.plan.isCanary => o = Decide(in, scoped, checks)
        /\ ~in.plan.isCanary => o.action = "None"
    BY <1>5, Zenon DEF Plan0, rolling
  <1> HIDE DEF o, res
  <1>7. /\ res.out.action = o.action
        /\ res.out = o \/ (res.out.action \notin Running /\ res.out.state.failed = in.target)
        /\ o.action = "Rollback" => o.state.failed = in.state.revision
    BY <1>2, <1>3, <1>4, Zenon DEF Aims
  <1>8. QED
    BY <1>1, <1>6, <1>7, Zenon DEF o, res

(* One pass, whatever the monitoring system answers.                       *)
LEMMA PassAccounts ==
  ASSUME EInv, NEW scoped \in BOOLEAN, NEW checks \in SUBSET Verdicts, NEW stuck
  PROVE  LET judged == (plan.isCanary /\ RoundDue(Input)) /\ ScopeKnown(Input, scoped)
             res    == planRollout(Input, scoped, checks, stuck)
             h      == Noted(scoped, checks, judged, res)
             s      == Persisted(res.out)
         IN  /\ Tested(s) => Earned(s, h)
             /\ RungEarned(s, h) /\ BudgetSpent(s, h)
  <1> DEFINE judged == (plan.isCanary /\ RoundDue(Input)) /\ ScopeKnown(Input, scoped)
             known  == RoundDue(Input) /\ ScopeKnown(Input, scoped)
             res    == planRollout(Input, scoped, checks, stuck)
             h      == Noted(scoped, checks, judged, res)
             s      == Persisted(res.out)
             o      == Plan0(Input, scoped, checks)
             out    == Decide(Input, scoped, checks)
  <1>1. /\ Input.target = target /\ Input.state = st /\ Input.plan = plan
        /\ Input \in InputType /\ Fallback(Input) /\ IInv
    BY InputTyped, Zenon DEF EInv, Input
  <1>2. /\ res.out \in OutputType /\ res.out.action = o.action
        /\ res.out = o \/ (res.out.action \notin Running /\ res.out.state.failed = Input.target)
        /\ o.action = "Rollback" => o.state.failed = Input.state.revision
        /\ Input.plan.isCanary => o = out
        /\ ~Input.plan.isCanary => o.action = "None"
    BY <1>1, PlanOutcome
  <1>3. plan.isCanary => judged = known
    BY Zenon
  <1>4. ~judged \/ (plan.isCanary /\ RoundDue(Input))
    BY Zenon
  <1> HIDE DEF res, o
  <1>5. /\ res.out.action = "Start" => h.passed = {} /\ h.fails = 0
        /\ res.out.action # "Start" /\ ~judged => h.fails = hist.fails
    BY <1>1, NotedFails, ZenonT(30)
  <1>6. /\ ~isActive(st.phase) =>
             /\ ~RoundDue(Input)
             /\ \/ Restarts(out) \/ out.action \in {"None", "Promote"}
                \/ out.action = "Wait" /\ out.state.startedAt = NoTime
        /\ isActive(st.phase) /\ st.revision # target =>
             /\ ~RoundDue(Input)
             /\ \/ Restarts(out) \/ out.action = "Rollback"
                \/ out.action = "Wait" /\ out.state.startedAt = NoTime
    BY <1>1, DecideBegins, DecideRestarts, Zenon
  <1> DEFINE k == Noted(scoped, checks, known, res)
             p == Persisted(out)
  <1>7. ASSUME plan.isCanary, isActive(st.phase), st.revision = target
        PROVE  /\ out.action \in Running /\ Tested(p) => Earned(p, k)
               /\ (out.action \in {"Pause", "Promote"} /\ plan.onInconclusive # "Promote")
                    => /\ 0..st.step \subseteq k.passed
                       /\ st.phase = "Paused" \/ st.step >= Len(plan.weights) - 1
               /\ (k.fails > hist.fails /\ k.fails >= plan.failureThreshold)
                    => out.action = "Rollback"
    <2>1. res.out.action = out.action
      BY <1>1, <1>2, <1>7, Zenon
    <2>2. QED
      BY <1>7, <2>1, PassEarns
  <1>8. plan.isCanary => h = k
    BY <1>3, Zenon
  <1>9. /\ s.phase = PhaseFrom(res.out.action) /\ s.failed = res.out.state.failed
        /\ isActive(s.phase) <=> res.out.action \in Running
    BY <1>2, PersistedTyped, Zenon DEF Running
  <1>10. res.out.action \in Running => s = Persisted(o) /\ res.out = o
    BY <1>2, Zenon
  <1> HIDE DEF h, k, p, s, judged, known, out
  <1>11. /\ s.phase = "Paused" => res.out.action = "Pause"
         /\ s.phase = "Promoting" => res.out.action = "Promote"
         /\ res.out.action = "Rollback" => s.phase = "RollingBack"
    <2>1. res.out.action \in Actions
      BY <1>2, Zenon DEF OutputType
    <2>2. QED
      BY <1>9, <2>1 DEF PhaseFrom, Actions
  <1>12. o.action = "Rollback" /\ st.revision = target => s.failed = st.revision
    BY <1>1, <1>2, <1>9, Zenon
  <1>13. CASE plan.isCanary /\ isActive(st.phase) /\ st.revision = target
    <2>1. o = out /\ res.out.action = out.action /\ h = k
      BY <1>1, <1>2, <1>8, <1>13, Zenon
    <2>2. Tested(s) => Earned(s, h)
      BY <1>7, <1>9, <1>10, <1>13, <2>1, Zenon DEF Tested, p
    <2>3. RungEarned(s, h)
      <3>1. st.phase = "Progressing" => st.phase # "Paused"
        OBVIOUS
      <3>2. QED
        BY <1>7, <1>11, <1>13, <2>1, <3>1, Zenon DEF RungEarned
    <2>4. BudgetSpent(s, h)
      BY <1>7, <1>11, <1>12, <1>13, <2>1, Zenon DEF BudgetSpent
    <2>5. QED
      BY <2>2, <2>3, <2>4, Zenon DEF h, s, judged, res
  <1>14. CASE ~(plan.isCanary /\ isActive(st.phase) /\ st.revision = target)
    <2>1. ~judged
      BY <1>4, <1>6, <1>14, Zenon
    <2>2. BudgetSpent(s, h)
      <3>1. hist.fails \in Nat
        BY <1>1, Zenon DEF IInv, TypeOK, HistoryType
      <3>2. h.fails \in {0, hist.fails}
        BY <1>5, <2>1, Zenon
      <3>3. ~(h.fails > hist.fails)
        BY <3>1, <3>2
      <3>4. QED
        BY <3>3, Zenon DEF BudgetSpent
    <2>3. \/ Restarts(o) \/ o.action \in {"None", "Rollback"}
          \/ o.action = "Promote" /\ ~isActive(st.phase)
          \/ o.action = "Wait" /\ o.state.startedAt = NoTime
      BY <1>1, <1>2, <1>6, <1>14, Zenon
    <2>4. RungEarned(s, h)
      <3>1. s.phase \in {"Paused", "Promoting"} => o.action \in {"Pause", "Promote"}
        BY <1>2, <1>11, Zenon
      <3>2. o.action = "Pause" => FALSE
        BY <2>3 DEF Restarts
      <3>3. o.action = "Promote" => ~isActive(st.phase)
        BY <2>3 DEF Restarts
      <3>4. QED
        BY <3>1, <3>2, <3>3, Zenon DEF RungEarned
    <2>5. ASSUME Tested(s) PROVE Earned(s, h)
      <3>1. res.out.action \in Running /\ res.out = o /\ s = Persisted(o) /\ o \in OutputType
        BY <1>2, <1>9, <1>10, <2>5, Zenon DEF Tested
      <3>2. Restarts(o) \/ (o.action = "Wait" /\ o.state.startedAt = NoTime)
        BY <2>3, <3>1 DEF Running
      <3>3. Restarts(o) => h.passed = {} /\ h.fails = 0
        BY <1>5, <3>1, Zenon DEF Restarts
      <3>4. QED
        BY <2>5, <3>1, <3>2, <3>3, FreshTrial, Zenon
    <2>6. QED
      BY <2>2, <2>4, <2>5, Zenon DEF h, s, judged, res
  <1>15. QED
    BY <1>13, <1>14, Zenon

LEMMA ReconcileEarns ==
  EInv /\ Reconcile => TrialInv' /\ RungEarned(st', hist') /\ BudgetSpent(st', hist')
  <1> SUFFICES ASSUME EInv, Reconcile
               PROVE  TrialInv' /\ RungEarned(st', hist') /\ BudgetSpent(st', hist')
    BY Zenon
  <1> DEFINE due == plan.isCanary /\ RoundDue(Input)
  <1>1. PICK scoped \in IF due THEN ScopeAnswers ELSE {FALSE},
             checks \in IF due THEN SUBSET Verdicts ELSE {{}} :
          LET judged == due /\ ScopeKnown(Input, scoped)
              res    == planRollout(Input, scoped, checks, primary.health = "stalled")
          IN  st' = Persisted(res.out) /\ hist' = Noted(scoped, checks, judged, res)
    BY Zenon DEF Reconcile, CarryOut
  <1>2. scoped \in BOOLEAN /\ checks \in SUBSET Verdicts
    BY SpecAssumption, Zenon
  <1>3. /\ Tested(st') => Earned(st', hist')
        /\ RungEarned(st', hist') /\ BudgetSpent(st', hist')
    BY <1>1, <1>2, PassAccounts
  <1>4. QED
    BY <1>3, Zenon DEF TrialInv

(* The clocks of status and of history age together.                       *)
LEMMA OlderTogether ==
  ASSUME NEW a \in Ages, NEW b \in Ages, NEW spans
  PROVE  /\ Older(a, spans) = NoTime <=> a = NoTime
         /\ a # NoTime /\ b # NoTime /\ b >= a => Older(b, spans) >= Older(a, spans)
  <1>1. Ages = Nat \cup {-1} /\ NoTime = -1
    BY Zenon DEF Ages, NoTime
  <1>2. /\ Older(a, spans) \in {a, a + 1} /\ Older(b, spans) \in {b, b + 1}
        /\ a = NoTime => Older(a, spans) = a
        /\ a = b => Older(a, spans) = Older(b, spans)
    BY Zenon DEF Older
  <1>3. QED
    BY <1>1, <1>2

LEMMA TickAges ==
  ASSUME EInv, Tick
  PROVE  TrialInv' /\ st'.phase = st.phase /\ hist'.fails = hist.fails
  <1>1. st \in StateType /\ hist \in HistoryType
    BY Zenon DEF EInv, IInv, TypeOK
  <1>2. /\ st'.phase = st.phase /\ st'.step = st.step /\ st'.failedChecks = st.failedChecks
        /\ st'.readiness = st.readiness /\ st'.scopeReady = st.scopeReady
        /\ st'.availableSince = Older(st.availableSince, WarmSpans)
        /\ st'.startedAt = Older(st.startedAt, DeadlineSpans)
    BY <1>1, Zenon DEF Tick, StateType
  <1>3. /\ hist'.fails = hist.fails /\ hist'.passed = hist.passed
        /\ hist'.scopedFor = hist.scopedFor
    BY <1>1, Zenon DEF Tick, HistoryType
  <1>4. hist'.seen.key = hist.seen.key /\ hist'.seen.age = Older(hist.seen.age, WarmSpans)
    BY <1>1, Zenon DEF Tick, HistoryType
  <1>5. st.availableSince \in Ages /\ st.startedAt \in Ages /\ hist.seen.age \in Ages
    BY <1>1, Zenon DEF StateType, HistoryType
  <1>6. ASSUME Tested(st') PROVE Earned(st', hist')
    <2>1. Tested(st)
      BY <1>2, <1>5, <1>6, OlderTogether, Zenon DEF Tested
    <2>2. Earned(st, hist)
      BY <2>1, Zenon DEF EInv, TrialInv
    <2>3. ASSUME st'.availableSince # NoTime
          PROVE  /\ hist'.seen.key = st'.readiness /\ hist'.seen.age # NoTime
                 /\ hist'.seen.age >= st'.availableSince
      <3>1. st.availableSince # NoTime
        BY <1>2, <1>5, <2>3, OlderTogether, Zenon
      <3>2. /\ hist.seen.key = st.readiness /\ hist.seen.age # NoTime
            /\ hist.seen.age >= st.availableSince
        BY <2>2, <3>1, Zenon DEF Earned
      <3>3. /\ Older(hist.seen.age, WarmSpans) # NoTime
            /\ Older(hist.seen.age, WarmSpans) >= Older(st.availableSince, WarmSpans)
        BY <1>5, <3>1, <3>2, OlderTogether, Zenon
      <3>4. QED
        BY <1>2, <1>4, <3>2, <3>3, Zenon
    <2>4. QED
      BY <1>2, <1>3, <2>2, <2>3, Zenon DEF Earned
  <1>7. QED
    BY <1>2, <1>3, <1>6, Zenon DEF TrialInv

LEMMA EveryoneElseEarns ==
  EInv /\ [Next]_vars /\ ~Reconcile
    => TrialInv' /\ RungEarned(st', hist') /\ BudgetSpent(st', hist')
  <1> SUFFICES ASSUME EInv, [Next]_vars, ~Reconcile
               PROVE  TrialInv' /\ RungEarned(st', hist') /\ BudgetSpent(st', hist')
    BY Zenon
  <1> DEFINE Goal == TrialInv' /\ st'.phase = st.phase /\ hist'.fails = hist.fails
  <1>1. ASSUME NEW r \in Revisions, EditSpec(r) PROVE Goal
    <2>1. hist \in HistoryType
      BY Zenon DEF EInv, IInv, TypeOK
    <2>2. /\ st' = st /\ hist'.fails = hist.fails /\ hist'.passed = hist.passed
          /\ hist'.scopedFor = hist.scopedFor /\ hist'.seen = hist.seen
      BY <1>1, <2>1, Zenon DEF EditSpec, HistoryType
    <2>3. QED
      BY <2>2, Zenon DEF EInv, TrialInv, Earned
  <1>2. ASSUME st' = st, hist' = hist PROVE Goal
    BY <1>2, Zenon DEF EInv, TrialInv
  <1>3. ASSUME NEW p \in Plans, EditRollout(p) PROVE Goal
    BY <1>2, <1>3, Zenon DEF EditRollout
  <1>4. ASSUME NEW n \in Totals, Scale(n) PROVE Goal
    BY <1>2, <1>4, Zenon DEF Scale
  <1>5. ASSUME NEW a \in {"promote", "abort"}, Annotate(a) PROVE Goal
    BY <1>2, <1>5, Zenon DEF Annotate
  <1>6. ASSUME CanarySettles \/ CanaryFlaps \/ CanaryTampered PROVE Goal
    BY <1>2, <1>6, Zenon DEF CanarySettles, CanaryFlaps, CanaryTampered
  <1>7. ASSUME PrimaryMoves \/ PrimaryRecovers PROVE Goal
    BY <1>2, <1>7, Zenon DEF PrimaryMoves, PrimaryRecovers
  <1>8. ASSUME Tick PROVE Goal
    BY <1>8, TickAges, Zenon
  <1>9. ASSUME UNCHANGED vars PROVE Goal
    BY <1>2, <1>9, Zenon DEF vars
  <1>10. TrialInv' /\ st'.phase = st.phase /\ hist'.fails = hist.fails
    BY <1>1, <1>3, <1>4, <1>5, <1>6, <1>7, <1>8, <1>9, Zenon DEF Next
  <1>11. ~(hist'.fails > hist.fails)
    <2>1. hist.fails \in Nat
      BY Zenon DEF EInv, IInv, TypeOK, HistoryType
    <2>2. QED
      BY <1>10, <2>1
  <1>12. QED
    BY <1>10, <1>11, Zenon DEF RungEarned, BudgetSpent

LEMMA EInvStep ==
  EInv /\ [Next]_vars => EInv' /\ RungEarned(st', hist') /\ BudgetSpent(st', hist')
  BY ReconcileIInv, EveryoneElseIInv, ReconcileEarns, EveryoneElseEarns, Zenon DEF EInv

LEMMA InitEInv == Init => EInv
  <1>1. Init => TrialInv
    BY DEF TrialInv, Tested, Init, EmptyState, isActive
  <1>2. QED
    BY <1>1, InitIInv, Zenon DEF EInv

(* No rung is skipped and no verdict is borrowed (state.go: analyse,       *)
(* observeCanary, continueRunning): for every ladder, threshold and        *)
(* window, and whatever fails, flaps, is edited or restarted on the way, a *)
(* canary is put up for approval or promoted only when every rung up to    *)
(* the present one passed in this trial, each on a candidate seen complete *)
(* for as long as the plan asks and with the scope established for this    *)
(* very Deployment, and only from the last rung or after a pause there.    *)
THEOREM EvidenceBeforeRelease == Spec => EveryRungEarned
  <1>1. EInv /\ [Next]_vars => EInv' /\ [RungEarned(st', hist')]_vars
    BY EInvStep, Zenon
  <1>2. QED
    BY <1>1, InitEInv, PTL DEF Spec, EveryRungEarned, RungEarned

(* The failure budget is real (state.go: counters.apply, SetCounters): the *)
(* failed round that reaches failureThreshold ends the trial in the very   *)
(* pass that judged it and records the revision as rejected, for every     *)
(* threshold and whatever passes, errors and restarts lie between the      *)
(* failures.                                                               *)
THEOREM BudgetAlwaysSpent == Spec => FailureBudgetSpent
  <1>1. EInv /\ [Next]_vars => EInv' /\ [BudgetSpent(st', hist')]_vars
    BY EInvStep, Zenon
  <1>2. QED
    BY <1>1, InitEInv, PTL DEF Spec, FailureBudgetSpent, BudgetSpent
=============================================================================
