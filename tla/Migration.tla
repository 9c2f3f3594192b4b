------------------------------- MODULE Migration ------------------------------
(***************************************************************************)
(* What a revision is: internal/revision (hash.go, history.go) and the     *)
(* controller's use of it (revision_snapshot.go, renderRollout,            *)
(* specForRevision, recordRevision, children.go).                          *)
(*                                                                         *)
(* Identities are content hashes, so an identity is represented by its     *)
(* content and two contents never collide.  The old, unversioned format    *)
(* recorded the fields as authored, and the Service port; v2 records the   *)
(* resolved fields and the startup timeout.  A cluster is taken over from  *)
(* a controller that wrote the old format, whichever state it left.        *)
(*                                                                         *)
(* The plan of a pass is Canary's, with the verdicts left open.            *)
(***************************************************************************)
EXTENDS Integers, FiniteSets, FiniteSetsExt

CONSTANTS Models, Ports,
          Images, Unset,    \* engine images; a field the author left out
          DefaultImage,     \* the image compiled into this controller
          OldImages,        \* the ones a previous controller may have had
          Timeouts, DefaultTimeout, Period, \* seconds; Period is a probe's
          Limit,            \* revisionHistoryLimit
          MaxEdits, MaxFaults,   \* bounds: interventions; lost writes and losses
          None

VARIABLES
  spec, rolling,      \* the authored workload; whether the strategy is a rolling update
  abort,              \* the annotation
  st,                 \* status: phase, canary.revision, canary.failedRevision
  lastGood, stable,   \* status.lastGoodRevision, status.stableRevision
  primary, canary,    \* the Deployments: label and Pod template
  converged,          \* the primary's pods all run its template
  service,            \* the port the Service sends clients to
  store, cache,       \* ControllerRevisions and the informer's copy of them
  outcome,            \* how the last pass ended
  edits, faults, hist

mvars == <<spec, rolling, abort, st, lastGood, stable, primary, canary, converged,
           service, store, cache, outcome, edits, faults, hist>>

Specs == [model : Models, image : Images \cup {Unset},
          timeout : Timeouts \cup {Unset}, shim : BOOLEAN, port : Ports]

Active == {"Canarying", "Paused"}

(* What is recorded of a workload in either format, and what runs.         *)
Revisions ==
  [v : {"v2"}, model : Models, image : Images \cup {DefaultImage},
   timeout : Timeouts \cup {DefaultTimeout}, shim : BOOLEAN]
  \cup [v : {"legacy"}, model : Models, image : Images \cup {Unset},
        shim : BOOLEAN, port : Ports]

Pods == [model : Models, image : Images \cup OldImages \cup {DefaultImage},
         shim : BOOLEAN, threshold : Int, scoped : BOOLEAN]

Deployments == [rev : Revisions, pod : Pods]

(* Durations are whole seconds, a probe has a period, and None stands for  *)
(* an empty field only.                                                    *)
ASSUME MigrationAssumption ==
  /\ Period \in Nat \ {0} /\ DefaultTimeout \in Nat /\ Timeouts \subseteq Nat
  /\ Unset \notin Images /\ Unset \notin Timeouts
  /\ None \notin Models /\ None \notin Revisions /\ None \notin Deployments

-----------------------------------------------------------------------------
(* Identities and workloads. *)

(* resolvedRevisionSpec: what is left out takes this controller's default. *)
resolvedRevisionSpec(s) ==
  [s EXCEPT !.image   = IF @ = Unset THEN DefaultImage ELSE @,
            !.timeout = IF @ = Unset THEN DefaultTimeout ELSE @]

(* NewSnapshot, Encode and Hash, Decode.                                   *)
NewSnapshot(r) == [v |-> "v2", model |-> r.model, image |-> r.image,
                   timeout |-> r.timeout, shim |-> r.shim]

Legacy(s) == [v |-> "legacy", model |-> s.model, image |-> s.image,
              shim |-> s.shim, port |-> s.port]

startupFailureThreshold(seconds) == Max({(seconds + Period - 1) \div Period, 1})

(* buildPodSpec and buildShimContainer, as far as the comparisons see. The *)
(* scope arguments are the shim's --namespace and --model-deployment.      *)
Pod(r) == [model |-> r.model, image |-> r.image, shim |-> r.shim,
           threshold |-> startupFailureThreshold(r.timeout), scoped |-> r.shim]

(* servingTargetPort: the Service follows the live spec.                   *)
servingTargetPort(s) == IF s.shim THEN "http" ELSE "engine"

PodPorts(pod) == IF pod.shim THEN {"http", "engine"} ELSE {"engine"}

-----------------------------------------------------------------------------
(* targetRevisionForMigration *)

Reference(rev, dep, noRender) == [rev |-> rev, dep |-> dep, noRender |-> noRender]

legacyReferenceFrom ==
  IF st.revision # None /\ st.phase \in Active THEN Reference(st.revision, canary, FALSE)
  ELSE IF st.revision # None /\ st.phase = "Promoting"
  THEN Reference(st.revision, primary, FALSE)
  ELSE IF st.revision # None /\ st.phase = "RollingBack"
  THEN Reference(st.revision, None, TRUE)
  ELSE IF st.failed # None THEN Reference(st.failed, None, TRUE)
  ELSE IF primary # None /\ primary.rev \in {lastGood, stable}
  THEN Reference(primary.rev, primary, FALSE)
  ELSE Reference(None, None, FALSE)

(* The port is compared no more, and the timeout was never recorded.       *)
legacyRecordedWorkloadEqual(s, id) ==
  s.model = id.model /\ s.image = id.image /\ s.shim = id.shim

startupTimeoutMatchesDeployment ==
  /\ primary # None
  /\ LET good == IF lastGood # None THEN lastGood ELSE stable
     IN  good # None /\ primary.rev = good
  /\ primary.pod.threshold = Pod(resolvedRevisionSpec(spec)).threshold

currentWorkloadMatchesDeployment(dep) ==
  LET desired == Pod(resolvedRevisionSpec(spec))
  IN  CASE dep.pod = desired -> "exact"
        [] dep.pod # desired /\ dep.pod = [desired EXCEPT !.scoped = FALSE] -> "telemetry"
        [] OTHER -> "different"

Use(id, adopted) == [kind |-> "use", id |-> id, adopted |-> adopted]
Hold(id)         == [kind |-> "hold", id |-> id, adopted |-> TRUE]
Refuse           == [kind |-> "refuse", id |-> None, adopted |-> FALSE]

(* A mutant: every hash of the new format is taken for a new workload.     *)
targetWithoutMigration(ref, v2) == Use(v2, FALSE)

targetRevisionForMigration(ref, v2) ==
  IF ref.rev \in {None, v2} THEN Use(v2, FALSE)
  ELSE IF ref.rev \notin DOMAIN cache THEN Refuse
  ELSE IF ref.rev.v = "v2" \/ ~legacyRecordedWorkloadEqual(spec, ref.rev) THEN Use(v2, FALSE)
  ELSE IF ref.noRender
  THEN (IF startupTimeoutMatchesDeployment THEN Use(ref.rev, TRUE) ELSE Refuse)
  ELSE IF ref.dep = None THEN Refuse
  ELSE IF ref.dep.rev # ref.rev THEN Refuse
  ELSE CASE currentWorkloadMatchesDeployment(ref.dep) = "different" -> Use(v2, FALSE)
         [] currentWorkloadMatchesDeployment(ref.dep) = "exact"     -> Use(ref.rev, TRUE)
         [] currentWorkloadMatchesDeployment(ref.dep) = "telemetry" ->
              IF st.phase \in Active \cup {"Promoting"} THEN Hold(ref.rev) ELSE Use(ref.rev, TRUE)

-----------------------------------------------------------------------------
(* Recorder: reads go through the informer's copy, writes do not.          *)

Numbers(view) == { view[id] : id \in DOMAIN view }

nextRevisionNumber == Max(Numbers(cache) \cup {0}) + 1

(* Record: what the store holds afterwards, and how the call ended.  An    *)
(* AlreadyExists is answered by a second read of the same copy.            *)
Record(id) ==
  IF id \in DOMAIN cache THEN [store |-> store, ok |-> TRUE]
  ELSE IF id \in DOMAIN store THEN [store |-> store, ok |-> FALSE]
  ELSE [store |-> [x \in DOMAIN store \cup {id} |->
                     IF x = id THEN nextRevisionNumber ELSE store[x]],
        ok |-> TRUE]

(* A mutant: only the new target and the stable revision are pinned.       *)
KeepFew(id) == {id, stable}

(* recordRevision's keep list.                                             *)
Keep(id) == {id, stable, lastGood, st.revision, st.stable, st.failed} \ {None}

(* Prune: the oldest that are not pinned, until the copy fits the limit.   *)
(* Equal numbers are ordered by name, that is, by hash: either way.        *)
Victims(keep) ==
  LET free   == DOMAIN cache \ keep
      excess == Cardinality(DOMAIN cache) - Limit
  IN  { V \in SUBSET free :
          /\ Cardinality(V) = Max({0, Min({excess, Cardinality(free)})})
          /\ \A v \in V, u \in free \ V : cache[v] <= cache[u] }

Without(revs, V) == [x \in DOMAIN revs \ V |-> revs[x]]

-----------------------------------------------------------------------------
(* renderRollout *)

Unrendered == [model |-> None]

(* resolveLegacyRevisionSpec and specForRevision.  What the old payload    *)
(* lacks is read off the primary that still runs under that identity.      *)
(* Missing history, or a missing primary, renders nothing.                 *)
specForRevision(want, target) ==
  IF want = target THEN Pod(resolvedRevisionSpec(spec))
  ELSE IF want \notin DOMAIN cache THEN Unrendered
  ELSE IF want.v = "v2" THEN Pod(want)
  ELSE IF primary = None THEN Unrendered
  ELSE IF primary.rev # want THEN Unrendered
  ELSE Pod([model |-> want.model, shim |-> want.shim, image |-> primary.pod.image,
            timeout |-> Period * primary.pod.threshold])

-----------------------------------------------------------------------------
(* planRollout, by what a pass may decide about `target`.                  *)

Begin(target) ==
  IF target \in {st.failed, lastGood} \/ lastGood = None THEN {"None"} ELSE {"Start"}

Verdicts(target) ==
  IF rolling THEN {"None"}
  ELSE IF st.phase \in Active /\ abort THEN {"Rollback"}
  ELSE IF st.phase \in Active /\ st.revision # target THEN {"Start"}
  ELSE CASE st.phase = "Canarying" -> {"Wait", "Pause", "Promote", "Rollback"}
         [] st.phase = "Paused" -> {"Pause", "Promote"}
         [] st.phase = "Promoting" ->
              (IF st.revision # target THEN Begin(target)
               ELSE IF lastGood = st.revision THEN {"None"} ELSE {"Promote"})
         [] st.phase \in {"Idle", "RollingBack"} -> Begin(target)

Planned(target, action) ==
  LET running == action \in {"Start", "Wait", "Pause"}
      failed  == IF action = "Rollback" THEN st.revision
                 ELSE IF rolling /\ st.failed # target THEN None ELSE st.failed
      held    == ~running /\ failed = target /\ lastGood \notin {None, target}
  IN  [running |-> running, held |-> held,
       primary |-> IF running \/ held \/ action = "Rollback" THEN lastGood ELSE target,
       canary  |-> IF running THEN target ELSE None,
       st |-> [phase    |-> CASE action \in {"Start", "Wait"} -> "Canarying"
                              [] action = "Pause"    -> "Paused"
                              [] action = "Promote"  -> "Promoting"
                              [] action = "Rollback" -> "RollingBack"
                              [] action = "None"     -> "Idle",
               revision |-> CASE action = "None" -> None
                              [] action = "Rollback" -> st.revision
                              [] OTHER -> target,
               failed   |-> failed,
               stable   |-> IF action = "None" THEN None ELSE lastGood]]

(* guardAgainstStall, which a primary that never converges may bring about.*)
Reverted(plan) ==
  IF plan.running \/ plan.held \/ lastGood \in {None, plan.primary} THEN plan
  ELSE [plan EXCEPT !.primary = lastGood, !.held = TRUE, !.st.failed = plan.primary]

Plans(target) ==
  LET base == { Planned(target, a) : a \in Verdicts(target) }
  IN  IF converged \/ primary = None THEN base ELSE base \cup { Reverted(p) : p \in base }

-----------------------------------------------------------------------------
(* A pass. *)

Serving == <<st, lastGood, stable, primary, canary, converged, service, abort>>

(* The primary runs what no pass has published: the status write of the    *)
(* pass that deployed it was lost.                                         *)
Unpinned == primary # None /\ primary.rev # stable

(* A pass that returns before it touches anything.                         *)
TurnedAway(how) ==
  /\ outcome' = how
  /\ UNCHANGED <<Serving, store, faults>>

(* renderRollout failed: failTerminally publishes Degraded.                *)
Terminal ==
  /\ outcome' = "terminal"
  /\ st' = [st EXCEPT !.phase = "Idle"]
  /\ UNCHANGED <<lastGood, stable, primary, canary, converged, service, abort, faults>>

Deployed(rev, pod) == [rev |-> rev, pod |-> pod]

(* computeStatus.                                                          *)
WriteStatus(target, plan) ==
  /\ st' = plan.st /\ stable' = plan.primary
  /\ lastGood' = IF /\ converged' /\ ~plan.running
                    /\ plan.primary = target \/ plan.held
                 THEN plan.primary ELSE lastGood
  /\ outcome' = "done" /\ UNCHANGED faults

(* A crash, or another writer in between: the children stand, the status   *)
(* does not.                                                               *)
LoseStatus ==
  /\ faults < MaxFaults /\ faults' = faults + 1 /\ outcome' = "lost"
  /\ UNCHANGED <<st, stable, lastGood>>

(* applyChildren, deleteCanaryDeployment, clearRolloutAnnotations.         *)
Apply(plan, primaryPod, canaryPod) ==
  /\ primary' = Deployed(plan.primary, primaryPod)
  /\ converged' = (converged /\ primary' = primary)
  /\ canary' = IF plan.running THEN Deployed(plan.canary, canaryPod) ELSE None
  /\ service' = servingTargetPort(spec)
  /\ abort' = FALSE

(* A mutant: a render that needs missing history falls back to the spec.   *)
CarryOutAnyway(target, plan) ==
  LET s == specForRevision(plan.primary, target)
      p == IF s = Unrendered THEN Pod(resolvedRevisionSpec(spec)) ELSE s
      c == IF plan.running THEN specForRevision(plan.canary, target) ELSE None
  IN  Apply(plan, p, c) /\ (WriteStatus(target, plan) \/ LoseStatus)

CarryOut(target, plan) ==
  LET p == specForRevision(plan.primary, target)
      c == IF plan.running THEN specForRevision(plan.canary, target) ELSE None
  IN  IF p = Unrendered THEN Terminal
      ELSE Apply(plan, p, c) /\ (WriteStatus(target, plan) \/ LoseStatus)

recordRevision(id) ==
  \E V \in Victims(Keep(id)) : store' = Without(Record(id).store, V)

Reconcile ==
  LET v2 == NewSnapshot(resolvedRevisionSpec(spec))
      r  == targetRevisionForMigration(legacyReferenceFrom, v2)
  IN  /\ \/ r.kind = "refuse" /\ TurnedAway("refused")
         \/ r.kind = "hold" /\ ~abort /\ TurnedAway("held")
         \/ r.kind = "use" /\ ~r.adopted /\ ~Record(r.id).ok /\ TurnedAway("unrecorded")
         \/ /\ r.kind = "use" \/ (r.kind = "hold" /\ abort)
            /\ IF r.adopted THEN UNCHANGED store
               ELSE Record(r.id).ok /\ recordRevision(r.id)
            /\ \E plan \in Plans(r.id) : CarryOut(r.id, plan)
      /\ hist' = [hist EXCEPT !.unpinned = @ \/ (outcome' = "terminal" /\ Unpinned)]
      /\ UNCHANGED <<spec, rolling, cache, edits>>

-----------------------------------------------------------------------------
(* Everyone else. *)

Edit(s) ==
  /\ edits < MaxEdits /\ edits' = edits + 1 /\ spec' = s
  /\ Cardinality({ f \in DOMAIN s : s[f] # spec[f] }) = 1
  /\ hist' = [hist EXCEPT !.touched = @ \/ [s EXCEPT !.port = spec.port] # spec]
  /\ UNCHANGED <<Serving, rolling, store, cache, outcome, faults>>

Annotate ==
  /\ edits < MaxEdits /\ edits' = edits + 1 /\ ~abort /\ abort' = TRUE
  /\ UNCHANGED <<spec, rolling, st, lastGood, stable, primary, canary, converged,
                 service, store, cache, outcome, faults, hist>>

(* The informer is never a whole pod rollout behind.                       *)
Converge ==
  /\ primary # None /\ ~converged /\ cache = store /\ converged' = TRUE
  /\ UNCHANGED <<spec, rolling, st, lastGood, stable, primary, canary, service,
                 store, cache, outcome, abort, edits, faults, hist>>

CacheCatchesUp ==
  /\ cache # store /\ cache' = store
  /\ UNCHANGED <<spec, rolling, Serving, store, outcome, edits, faults, hist>>

(* Someone deletes a Deployment, or a ControllerRevision.                  *)
Tamper ==
  /\ faults < MaxFaults /\ faults' = faults + 1
  /\ \/ primary # None /\ primary' = None /\ converged' = FALSE /\ UNCHANGED <<canary, store>>
     \/ canary # None /\ canary' = None /\ UNCHANGED <<primary, converged, store>>
     \/ /\ \E id \in DOMAIN store : store' = Without(store, {id})
        /\ UNCHANGED <<primary, converged, canary>>
  /\ hist' = [hist EXCEPT !.tampered = TRUE]
  /\ UNCHANGED <<spec, rolling, st, lastGood, stable, service, abort, cache, outcome, edits>>

-----------------------------------------------------------------------------
(* What the old controller left: nothing at all, or `spec` in one of the   *)
(* phases of a release, with another workload before it.                   *)

OldPod(s, image, scoped) ==
  [model |-> s.model, image |-> IF s.image = Unset THEN image ELSE s.image,
   shim |-> s.shim,
   threshold |-> startupFailureThreshold(IF s.timeout = Unset THEN DefaultTimeout ELSE s.timeout),
   scoped |-> s.shim /\ scoped]

Status(phase, rev, failed, good) ==
  [phase |-> phase, revision |-> rev, failed |-> failed,
   stable |-> IF rev = None THEN None ELSE good]

Left(phase, before, image, scoped) ==
  LET now  == Legacy(spec)
      good == Legacy(before)
      old  == Deployed(good, OldPod(before, image, scoped))
      new  == Deployed(now, OldPod(spec, image, scoped))
  IN  CASE phase = "fresh" ->
             /\ st = Status("Idle", None, None, None) /\ lastGood = None /\ stable = None
             /\ primary = None /\ canary = None
        [] phase = "steady" ->
             /\ st = Status("Idle", None, None, now) /\ lastGood = now /\ stable = now
             /\ primary = new /\ canary = None
        [] phase \in Active ->
             /\ st = Status(phase, now, None, good) /\ lastGood = good /\ stable = good
             /\ primary = old /\ canary = new
        [] phase = "Promoting" ->
             /\ st = Status(phase, now, None, good) /\ lastGood = good /\ stable = now
             /\ primary = new /\ canary = None
        [] phase = "RollingBack" ->
             /\ st = Status(phase, now, now, good) /\ lastGood = good /\ stable = good
             /\ primary = old /\ canary = None
        [] phase = "rejected" ->
             /\ st = Status("Idle", None, now, good) /\ lastGood = good /\ stable = good
             /\ primary = old /\ canary = None

Init ==
  /\ spec \in Specs /\ spec.image = Unset /\ spec.timeout = Unset
  /\ rolling \in BOOLEAN /\ abort = FALSE
  /\ \E phase \in {"fresh", "steady", "Canarying", "Paused", "Promoting", "RollingBack",
                   "rejected"},
        before \in { s \in Specs : s.model # spec.model /\ [s EXCEPT !.model = spec.model] = spec },
        image \in OldImages, scoped \in BOOLEAN :
       /\ rolling => phase \in {"fresh", "steady", "rejected"}
       /\ Left(phase, before, image, scoped)
       /\ store = [id \in (IF phase = "fresh" THEN {}
                           ELSE IF phase = "steady" THEN {Legacy(spec)}
                           ELSE {Legacy(before), Legacy(spec)})
                     |-> IF id = Legacy(spec) THEN 2 ELSE 1]
       /\ hist = [touched |-> phase = "fresh" \/ image # DefaultImage, tampered |-> FALSE,
                   unpinned |-> FALSE]
  /\ converged = (primary # None) /\ service = servingTargetPort(spec)
  /\ cache = store /\ outcome = "none" /\ edits = 0 /\ faults = 0

Next ==
  \/ Reconcile \/ \E s \in Specs : Edit(s)
  \/ Annotate \/ Converge \/ CacheCatchesUp \/ Tamper

Spec == Init /\ [][Next]_mvars

-----------------------------------------------------------------------------
(* Properties. *)

(* An upgrade of the controller is not a release: as long as nobody        *)
(* changes the workload and the defaults are what they were, no variant    *)
(* and no status ever names an identity of the new format, so no canary    *)
(* restarts, no rejected revision is retried and no pod is replaced for    *)
(* the change of format (targetRevisionForMigration).  A new port is not a *)
(* new workload.                                                           *)
UpgradeIsNotARelease ==
  (~hist.touched /\ ~hist.tampered) =>
     \A id \in {st.revision, st.failed, lastGood, stable}
                 \cup { d.rev : d \in {primary, canary} \ {None} } :
       id # None => id.v = "legacy"

(* A label stands for one workload: as long as a Deployment keeps its      *)
(* revision label its pods keep model, image, probe budget and sidecar     *)
(* (specForRevision, resolveLegacyRevisionSpec: the live candidate is      *)
(* never rendered under the old label).  Only the telemetry arguments may  *)
(* be refreshed.                                                           *)
LabelMeansOneWorkload ==
  [][ \A d \in {<<primary, primary'>>, <<canary, canary'>>} :
        (None \notin {d[1], d[2]} /\ d[1].rev = d[2].rev)
          => d[2].pod = [d[1].pod EXCEPT !.scoped = d[2].pod.scoped] ]_mvars

(* The revision a rollback would return to can be rendered: its history is *)
(* never pruned, however many revisions come and go, however the informer  *)
(* lags and whichever status writes are lost (Keep, Prune).  The one case  *)
(* the keep list does not cover is left out: a pass that prunes and then   *)
(* renders nothing, while the primary runs a revision whose status write   *)
(* was lost.  That revision is pinned by nothing, the informer still shows *)
(* its record, and a later pass that returns to it takes it for recorded.  *)
RollbackTargetRecorded ==
  (lastGood # None /\ ~hist.tampered /\ ~hist.unpinned) => lastGood \in DOMAIN store

(* The Service sends clients to a port that every variant's pods have:     *)
(* children.go:532 "turning metrics on or off changes no client, no        *)
(* Service port and no endpoint URL".                                      *)
ServiceReachesEveryVariant ==
  \A d \in {primary, canary} \ {None} : service \in PodPorts(d.pod)

(* A pass that lost its status is made up for by a later one               *)
(* (revision_snapshot.go:293 "its identity and phase are the restart       *)
(* contract"): without tampering the migration never refuses.              *)
RestartContract == ~hist.tampered => outcome # "refused"

(* history.go:158 "whichever write won is equally correct: adopt it".      *)
RacedRecordAdopted == outcome # "unrecorded"
=============================================================================
