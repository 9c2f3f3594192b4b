------------------------------- MODULE Rollout --------------------------------
(***************************************************************************)
(* One ModelDeployment under its controller, a reconcile pass at a time.   *)
(*                                                                         *)
(* A pass (Reconcile) is one atomic step here: it reads the spec, the      *)
(* annotations, the persisted status and both Deployments, plans, applies, *)
(* consumes the annotations and writes status.  Everything else happens    *)
(* between passes: people edit the spec and annotate, the cluster rolls    *)
(* Deployments forward, replaces or loses them, and time goes by.          *)
(***************************************************************************)
EXTENDS RolloutPlan, FiniteSets, FiniteSetsExt

CONSTANTS
  Plans,        \* the rollout sections (canaryPlan, strategy) a spec may carry
  Totals,       \* the values of spec.replicas
  ScopeAnswers, \* the answers the metric-scope query may give
  MaxEdits,     \* bound: interventions from outside (edits, annotations)
  MaxInconclusive \* bound: inconclusive rounds in a row that are explored

ASSUME SpecAssumption ==
  /\ Totals \subseteq Nat /\ Plans \subseteq PlanType /\ ScopeAnswers \subseteq BOOLEAN

(* The cluster never runs out of identifiers.                              *)
ASSUME IdentifierAssumption ==
  /\ \A a, b, c, d \in AnyUID : \E u \in UIDs : u \notin {a, b, c, d}
  /\ \A a, b, c \in AnyGeneration : \E g \in Generations : g \notin {a, b, c}

VARIABLES
  target, plan, total,  \* the spec: revision, rollout section, replicas
  ann,                  \* which of the two annotations are "true"
  stable,               \* status.lastGoodRevision
  st,                   \* status.phase and status.canary
  dep,                  \* the canary Deployment
  primary,              \* the primary Deployment
  wake, timer,          \* the work queue: a queued key, a pending requeue
  edits,                \* interventions so far
  hist                  \* history, read by the properties only

vars == <<target, plan, total, ann, stable, st, dep, primary, wake, timer,
          edits, hist>>

(* The primary Deployment is rolling out its template, has converged on it *)
(* (rolloutComplete), or has exceeded its progress deadline.               *)
Health == {"rolling", "converged", "stalled"}

NoPrimary == [revision |-> NoRevision, replicas |-> 0, health |-> "rolling"]

-----------------------------------------------------------------------------
(* History.  `reason` is why the last pass rolled back, if it did.         *)
(* `seen` is what the passes have observed of the candidate and for how    *)
(* long without a change, `passed` the rungs of this trial that a complete *)
(* round of passing checks judged on a full window, `fails` its failed     *)
(* rounds.                                                                 *)
NothingSeen == [key |-> NoReadiness, age |-> NoTime]

NoHistory ==
  [reason |-> "none", seen |-> NothingSeen, scopedFor |-> NoUID, passed |-> {},
   fails |-> 0, sinceClimb |-> NoTime, edited |-> TRUE]

Init ==
  /\ target \in Revisions /\ plan \in Plans /\ total \in Totals
  /\ ann = {} /\ stable = NoRevision /\ st = EmptyState
  /\ dep = NoDeployment /\ primary = NoPrimary
  /\ wake = TRUE /\ timer = 0 /\ edits = 0
  /\ hist = NoHistory

-----------------------------------------------------------------------------
(* The reconcile pass. *)

Input ==
  [plan |-> plan, state |-> st, target |-> target, stable |-> stable,
   total |-> total, dep |-> dep, round |-> NoRound,
   approved |-> "promote" \in ann, aborted |-> "abort" \in ann]

(* A fresh identifier: one that nothing in the state still remembers.      *)
(* Identifiers are only ever compared for equality, so which one is taken  *)
(* makes no difference.                                                    *)
FreshUID ==
  CHOOSE u \in UIDs : u \notin {dep.uid, st.readiness.uid, hist.scopedFor,
                                hist.seen.key.uid}
FreshGeneration ==
  CHOOSE g \in Generations : g \notin {dep.generation, st.readiness.generation,
                                       hist.seen.key.generation}

(* applyChildren and deleteCanaryDeployment for the canary variant.        *)
ApplyCanary(res) ==
  dep' = IF res.canaryReplicas = 0 THEN NoDeployment
         ELSE IF dep.uid = NoUID
         THEN [uid |-> FreshUID, revision |-> res.canaryRevision, generation |-> 1,
               replicas |-> res.canaryReplicas, settled |-> FALSE]
         ELSE IF dep.revision = res.canaryRevision /\ dep.replicas = res.canaryReplicas
         THEN dep
         ELSE [dep EXCEPT !.revision = res.canaryRevision, !.generation = FreshGeneration,
                          !.replicas = res.canaryReplicas, !.settled = FALSE]

ApplyPrimary(res) ==
  primary' = IF /\ primary.revision = res.primaryRevision
                /\ primary.replicas = res.primaryReplicas
             THEN primary
             ELSE [revision |-> res.primaryRevision,
                   replicas |-> res.primaryReplicas, health |-> "rolling"]

(* setCanaryHealthy's answer: is a canary in flight.                       *)
canaryActive(out) == out.action \in {"Start", "Advance", "Wait"}
                     \/ (out.action = "Pause" /\ out.canary > 0)

(* A mutant: the last good revision advances while a canary is in flight,  *)
(* and to the revision under test.                                         *)
BankEagerly(res, now) ==
  IF now.health = "converged" THEN firstNonEmpty(res.canaryRevision, res.primaryRevision)
  ELSE stable

(* computeStatus: only a primary that converged, with no canary in flight, *)
(* becomes the last good revision.  updatedReplicas counts the primary     *)
(* only when it runs the target, unless the target is held rejected.       *)
Bank(res, now) ==
  IF /\ now.health = "converged" /\ ~canaryActive(res.out)
     /\ res.primaryRevision = target \/ res.rolledBack
  THEN res.primaryRevision ELSE stable

(* clearRolloutAnnotations: both go, whichever was set.                    *)
clearRolloutAnnotations == {}

(* What the observer of history notes about a pass: whether the candidate  *)
(* was seen complete, what the round said, and what came of it.            *)
Complete ==
  LET w == currentWeight(plan, st)
  IN  /\ dep.uid # NoUID /\ dep.settled /\ dep.revision = target
      /\ dep.replicas = Split(total, w).canary

Noted(scoped, checks, judged, res) ==
  LET key  == ReadinessTarget(Input)
      seen == IF ~Complete THEN NothingSeen
              ELSE IF hist.seen.key = key /\ hist.seen.age # NoTime THEN hist.seen
              ELSE [key |-> key, age |-> 0]
      for  == IF judged /\ scoped THEN dep.uid ELSE hist.scopedFor
      good == /\ judged /\ checks = {"Pass"} /\ for = dep.uid
              /\ seen.age >= plan.initialDelay + plan.window
      bad  == judged /\ "Fail" \in checks /\ "Error" \notin checks
      new  == res.out.action = "Start"
  IN  [hist EXCEPT
         !.reason = IF res.out.action = "Rollback" THEN res.out.reason ELSE "none",
         !.seen = seen, !.scopedFor = for,
         !.passed = IF new THEN {} ELSE IF good THEN @ \cup {st.step} ELSE @,
         !.fails  = IF new THEN 0 ELSE IF bad THEN @ + 1 ELSE @,
         !.sinceClimb = IF res.out.action \in {"Start", "Advance"} THEN 0 ELSE @,
         !.edited = IF res.out.state.failed # st.failed \/ res.out.action = "Rollback"
                    THEN res.out.state.failed # target ELSE @]

(* A pass after it has planned.  The queue is woken by the pass itself     *)
(* when it changes a Deployment the controller owns or consumes an         *)
(* annotation it watches.                                                  *)
CarryOut(res, scoped, checks, judged) ==
  /\ res.out.state.consecInconcl <= MaxInconclusive
  /\ ApplyPrimary(res)
  /\ ApplyCanary(res)
  /\ st' = Persisted(res.out)
  /\ stable' = Bank(res, primary')
  /\ ann' = clearRolloutAnnotations
  /\ timer' = res.out.requeue
  /\ wake' = (dep' # dep \/ primary' # primary \/ ann # {})
  /\ hist' = Noted(scoped, checks, judged, res)
  /\ UNCHANGED <<target, plan, total, edits>>

Reconcile ==
  /\ wake
  /\ LET due == plan.isCanary /\ RoundDue(Input)
     IN  \E scoped \in IF due THEN ScopeAnswers ELSE {FALSE},
            checks \in IF due THEN SUBSET Verdicts ELSE {{}} :
           CarryOut(planRollout(Input, scoped, checks, primary.health = "stalled"),
                    scoped, checks, due /\ ScopeKnown(Input, scoped))

-----------------------------------------------------------------------------
(* Everyone else. *)

Intervene == edits < MaxEdits /\ edits' = edits + 1 /\ wake' = TRUE

EditSpec(r) ==
  /\ Intervene /\ r # target
  /\ target' = r /\ hist' = [hist EXCEPT !.edited = TRUE]
  /\ UNCHANGED <<plan, total, ann, stable, st, dep, primary, timer>>

EditRollout(p) ==
  /\ Intervene /\ p # plan /\ plan' = p
  /\ UNCHANGED <<target, total, ann, stable, st, dep, primary, timer, hist>>

Scale(n) ==
  /\ Intervene /\ n # total /\ total' = n
  /\ UNCHANGED <<target, plan, ann, stable, st, dep, primary, timer, hist>>

Annotate(a) ==
  /\ Intervene /\ a \notin ann /\ ann' = ann \cup {a}
  /\ UNCHANGED <<target, plan, total, stable, st, dep, primary, timer, hist>>

(* The Deployment controller, the scheduler and the nodes.                 *)
CanarySettles ==
  /\ dep.uid # NoUID /\ ~dep.settled
  /\ dep' = [dep EXCEPT !.settled = TRUE] /\ wake' = TRUE
  /\ UNCHANGED <<target, plan, total, ann, stable, st, primary, timer, edits, hist>>

CanaryFlaps ==
  /\ dep.settled
  /\ dep' = [dep EXCEPT !.settled = FALSE] /\ wake' = TRUE
  /\ UNCHANGED <<target, plan, total, ann, stable, st, primary, timer, edits, hist>>

(* Someone deletes the candidate, or edits it behind the controller.       *)
CanaryTampered ==
  /\ Intervene /\ dep.uid # NoUID
  /\ \/ dep' = NoDeployment
     \/ dep' = [dep EXCEPT !.generation = FreshGeneration, !.settled = FALSE]
  /\ UNCHANGED <<target, plan, total, ann, stable, st, primary, timer, hist>>

PrimaryMoves ==
  /\ primary.revision # NoRevision /\ primary.health = "rolling"
  /\ \E h \in {"converged", "stalled"} : primary' = [primary EXCEPT !.health = h]
  /\ wake' = TRUE
  /\ UNCHANGED <<target, plan, total, ann, stable, st, dep, timer, edits, hist>>

(* A stalled rollout may still complete, late.                             *)
PrimaryRecovers ==
  /\ primary.health = "stalled"
  /\ primary' = [primary EXCEPT !.health = "converged"] /\ wake' = TRUE
  /\ UNCHANGED <<target, plan, total, ann, stable, st, dep, timer, edits, hist>>

-----------------------------------------------------------------------------
(* Time.  An age stops growing once no plan can tell the difference.       *)

Horizon(spans) == Max(spans \cup {1})

Older(age, spans) == IF age = NoTime \/ age >= Horizon(spans) THEN age ELSE age + 1

WarmSpans     == { p.initialDelay + p.window : p \in Plans }
IntervalSpans == { p.interval : p \in Plans }
DeadlineSpans == { p.progressDeadline : p \in Plans }

Tick ==
  /\ st' = [st EXCEPT !.availableSince = Older(@, WarmSpans),
                      !.lastAnalysis   = Older(@, IntervalSpans),
                      !.startedAt      = Older(@, DeadlineSpans)]
  /\ hist' = [hist EXCEPT !.seen.age = Older(@, WarmSpans),
                          !.sinceClimb = Older(@, DeadlineSpans)]
  /\ timer' = IF timer > 0 THEN timer - 1 ELSE 0
  /\ wake' = (wake \/ timer = 1)
  /\ UNCHANGED <<target, plan, total, ann, stable, dep, primary, edits>>

Next ==
  \/ Reconcile
  \/ \E r \in Revisions : EditSpec(r)
  \/ \E p \in Plans : EditRollout(p)
  \/ \E n \in Totals : Scale(n)
  \/ \E a \in {"promote", "abort"} : Annotate(a)
  \/ CanarySettles \/ CanaryFlaps \/ CanaryTampered
  \/ PrimaryMoves \/ PrimaryRecovers
  \/ Tick

Spec == Init /\ [][Next]_vars

-----------------------------------------------------------------------------
(* Properties. *)

HistoryType ==
  [reason : Reasons \cup {"none"}, seen : [key : ReadinessType, age : Ages], scopedFor : AnyUID,
   passed : SUBSET Nat, fails : Nat, sinceClimb : Ages, edited : BOOLEAN]

(* The persisted canary status is always one the machine can be resumed    *)
(* from: in particular its phase is never "Waiting" (derivePhase has no    *)
(* such phase) and its counters and step are never negative.               *)
TypeOK ==
  /\ target \in Revisions /\ plan \in Plans /\ total \in Totals
  /\ ann \subseteq {"promote", "abort"}
  /\ stable \in Revs
  /\ st \in StateType
  /\ dep \in DeploymentType
  /\ primary \in [revision : Revs, replicas : Nat, health : Health]
  /\ wake \in BOOLEAN /\ timer \in Nat /\ edits \in Nat
  /\ hist \in HistoryType

(* While a canary is in flight there is a last good revision, a rollback   *)
(* would restore exactly it, and the primary is running it                 *)
(* (modeldeployment_types.go: entering Canarying requires a non-empty      *)
(* lastGoodRevision; status.go: it never advances under a canary).         *)
AlwaysAFallback ==
  isActive(st.phase) => /\ stable # NoRevision
                        /\ st.stable = stable
                        /\ primary.revision = stable

(* A rollback sticks until a human changes the spec: while the spec still  *)
(* names the revision that was rejected, and there is another one to run,  *)
(* no canary of it runs and the primary is not on it (begin,               *)
(* holdRejectedRevision), through any number of passes, replans, strategy  *)
(* changes and Deployment events.                                          *)
RejectionSticks ==
  (st.failed = target /\ ~hist.edited /\ stable # target /\ stable # NoRevision)
    => ~isActive(st.phase) /\ primary.revision # target

(* A canary is promoted, or offered for approval, only from the last rung  *)
(* and only after every rung up to it was judged by a complete round of    *)
(* passing checks, scoped to this resource, over a full window in which    *)
(* every pass saw that rung's candidate complete and unchanged (Observe,   *)
(* DueForAnalysis, Aggregate, advance).  onInconclusive: Promote is the    *)
(* one configured exception.                                               *)
EveryRungEarned ==
  [][ (/\ isActive(st.phase) /\ st'.phase \in {"Paused", "Promoting"}
       /\ st'.phase # st.phase /\ plan.onInconclusive # "Promote")
        => /\ 0..st.step \subseteq hist'.passed
           /\ st.phase = "Progressing" => st.step >= Len(plan.weights) - 1 ]_vars

(* The failed round that reaches failureThreshold rolls the canary back    *)
(* and records it, however many passes, flaps and restarts lie between the *)
(* failures and whatever passed in between (counters.apply, SetCounters).  *)
FailureBudgetSpent ==
  [][ (hist'.fails > hist.fails /\ hist'.fails >= plan.failureThreshold)
        => st'.phase = "RollingBack" /\ st'.failed = st.revision ]_vars

(* A rollout in flight is never left to chance: unless it waits for a      *)
(* human, a queued pass or an armed timer will look at it again (every     *)
(* RequeueAfter of state.go; nextAnalysisIn never returns zero).           *)
NeverUnattended ==
  st.phase \in {"Progressing", "Promoting"} => wake \/ timer > 0

-----------------------------------------------------------------------------
(* What all this comes to: every pass is a step of RolloutContract. *)

Contract == INSTANCE RolloutContract WITH
  None <- NoRevision, wanted <- target, good <- stable, serving <- primary.revision,
  trial <- IF isActive(st.phase) THEN st.revision ELSE NoRevision, rejected <- st.failed

(* A rollout implements the contract of RolloutContract: each pass tests   *)
(* the wanted revision beside the good one, releases it, or retreats       *)
(* (planRollout, computeStatus).                                           *)
ImplementsContract == Contract!Spec

-----------------------------------------------------------------------------
(* Liveness.  The work queue hands out a queued key, the clock runs, and   *)
(* the Deployment controller finishes a rollout or declares it stalled.    *)
(* Nothing is assumed of the candidate's pods, which may flap for ever,    *)
(* nor of what the metrics say.  Reconcile is enabled exactly when a key   *)
(* is queued, so its weak fairness is written with `wake` for ENABLED.     *)
FairSpec ==
  /\ Spec /\ WF_vars(Tick) /\ WF_vars(PrimaryMoves)
  /\ <>[]wake => []<><<Reconcile>>_vars

(* With a progress deadline and capacity for a canary, every trial ends    *)
(* or reaches the human who must approve it: readiness flaps cannot push   *)
(* the deadline back, and rounds without a verdict run out of budget       *)
(* (analyse, DeadlinePassed).                                              *)
TrialsEnd ==
  (st.phase = "Progressing" /\ total > 1)
    ~> (st.phase # "Progressing" \/ total <= 1)

(* A promotion ends, or its revision is rejected.                          *)
PromotionsSettle ==
  st.phase = "Promoting" ~> (st.phase # "Promoting" \/ st.failed = st.revision)

-----------------------------------------------------------------------------
(* Statements the repository makes about this code that the model refutes. *)

(* state.go:163 "A canary is not restarted for it": the revision under     *)
(* test is never the one a previous rollback rejected.                     *)
RejectedNeverRestarted ==
  isActive(st.phase) => st.revision # st.failed

(* rollout_types.go:74 "how long a rollout may make no progress before it  *)
(* is declared failed": a canary is not rolled back for its deadline while *)
(* its last climb is more recent than that.                                *)
DeadlineMeansNoProgress ==
  [][ (/\ st.phase = "Progressing" /\ st'.phase = "RollingBack"
       /\ hist'.reason = "CanaryProgressDeadlineExceeded")
        => hist.sinceClimb >= plan.progressDeadline ]_vars

(* modeldeployment_types.go:303 "Promoting and RollingBack always make     *)
(* progress": no promotion is pending for ever.                            *)
PromotingAlwaysProgresses ==
  st.phase = "Promoting" ~> st.phase # "Promoting"
=============================================================================
