---------------------------- MODULE MigrationProofs ---------------------------
(***************************************************************************)
(* What the migration promises, for any workloads, history limit, number   *)
(* of edits and number of faults.                                          *)
(*                                                                         *)
(* A pass is first taken apart: what its target, its plan and its renders  *)
(* may be (TargetMeans, PlansMean, SpecForRevisionMeans), and the two      *)
(* shapes it has in the end (ReconcileMeans): it leaves everything alone,  *)
(* or it takes a target up and then gives up or carries its plan out.      *)
(*                                                                         *)
(* RollbackTargetRecorded is not inductive: lastGood becomes whatever the  *)
(* converged primary runs, so that has to have a record too.  RInv adds    *)
(* this (PrimaryRecorded), for a primary whose record the informer shows.  *)
(*                                                                         *)
(* UpgradeIsNotARelease needs more.  The target is found again through the *)
(* status and the workload that runs, and both can be one lost write       *)
(* apart.  QInv says how far: there is one revision `now`, the identity of *)
(* the workload in the old format, that the status and both Deployments    *)
(* are about in the ways each phase allows (Settled).                      *)
(*                                                                         *)
(* LabelMeansOneWorkload is about one step, and false of a step from any   *)
(* typed state.  A label of the old format does not fix the image and the  *)
(* probe budget of its workload.  LInv says where such labels may stand:   *)
(* never on both variants, never rejected and last good at once, and on    *)
(* the primary only while the last good revision is of the old format too, *)
(* which can be rendered from the primary alone (LegacyCarried).           *)
(***************************************************************************)
EXTENDS Migration, TLAPS

Phases == Active \cup {"Idle", "Promoting", "RollingBack"}

StatusType == [phase : Phases, revision : Revisions \cup {None},
               failed : Revisions \cup {None}, stable : Revisions \cup {None}]

TypeInv ==
  /\ spec \in Specs /\ rolling \in BOOLEAN /\ abort \in BOOLEAN /\ converged \in BOOLEAN
  /\ st \in StatusType
  /\ lastGood \in Revisions \cup {None} /\ stable \in Revisions \cup {None}
  /\ primary \in Deployments \cup {None} /\ canary \in Deployments \cup {None}
  /\ DOMAIN store \subseteq Revisions /\ DOMAIN cache \subseteq Revisions
  /\ hist \in [touched : BOOLEAN, tampered : BOOLEAN, unpinned : BOOLEAN]

-----------------------------------------------------------------------------
(* Identities and workloads. *)

LEMMA ThresholdIsInt ==
  ASSUME NEW t \in Int
  PROVE  startupFailureThreshold(t) \in Int
  <1> DEFINE a == (t + Period - 1) \div Period
  <1>1. Period \in Int /\ Period > 0
    BY MigrationAssumption
  <1>2. t + Period - 1 \in Int
    BY <1>1
  <1>3. a \in Int
    BY <1>1, <1>2
  <1> HIDE DEF a
  <1>4. \E x \in {a, 1} : \A y \in {a, 1} : x >= y
    BY <1>3
  <1>5. Max({a, 1}) \in {a, 1}
    BY <1>4, Zenon DEF Max
  <1>6. startupFailureThreshold(t) = Max({a, 1})
    BY Zenon DEF startupFailureThreshold, a
  <1>7. QED
    BY <1>3, <1>5, <1>6

(* A workload's pods, and that rendering nothing is told apart from them.  *)
LEMMA PodIsPod ==
  ASSUME NEW r, r.model \in Models, r.image \in Images \cup OldImages \cup {DefaultImage},
         r.shim \in BOOLEAN, r.timeout \in Int
  PROVE  Pod(r) \in Pods
  <1> DEFINE n == startupFailureThreshold(r.timeout)
  <1>1. n \in Int
    BY ThresholdIsInt, Zenon
  <1>2. Pod(r) = [model |-> r.model, image |-> r.image, shim |-> r.shim,
                  threshold |-> n, scoped |-> r.shim]
    BY Zenon DEF Pod, n
  <1> HIDE DEF n
  <1>3. QED
    BY <1>1, <1>2 DEF Pods

LEMMA UnrenderedIsNoPod == Unrendered \notin Pods
  BY MigrationAssumption, Zenon DEF Unrendered, Pods

LEMMA ResolvedMeans ==
  ASSUME NEW s \in Specs
  PROVE  LET r == resolvedRevisionSpec(s)
         IN  /\ r.model = s.model /\ r.shim = s.shim /\ s.shim \in BOOLEAN /\ s.model \in Models
             /\ r.image = (IF s.image = Unset THEN DefaultImage ELSE s.image)
             /\ r.timeout = (IF s.timeout = Unset THEN DefaultTimeout ELSE s.timeout)
             /\ r.image \in Images \cup {DefaultImage}
             /\ r.timeout \in Timeouts \cup {DefaultTimeout} /\ r.timeout \in Nat
  <1> DEFINE i == IF s.image = Unset THEN DefaultImage ELSE s.image
             t == IF s.timeout = Unset THEN DefaultTimeout ELSE s.timeout
  <1>1. i \in Images \cup {DefaultImage} /\ t \in Timeouts \cup {DefaultTimeout}
    BY Zenon DEF Specs
  <1>2. t \in Nat
    BY Zenon, <1>1, MigrationAssumption
  <1>3. resolvedRevisionSpec(s) = [s EXCEPT !.image = i, !.timeout = t]
    BY Zenon DEF resolvedRevisionSpec, Specs
  <1> HIDE DEF i, t
  <1>4. /\ [s EXCEPT !.image = i, !.timeout = t].image = i
        /\ [s EXCEPT !.image = i, !.timeout = t].timeout = t
        /\ [s EXCEPT !.image = i, !.timeout = t].model = s.model
        /\ [s EXCEPT !.image = i, !.timeout = t].shim = s.shim
        /\ s.shim \in BOOLEAN /\ s.model \in Models
    BY Zenon DEF Specs
  <1>5. QED
    BY <1>1, <1>2, <1>3, <1>4, Zenon DEF i, t

(* The live workload: its identity in the new format, and its pods.        *)
LEMMA LiveTyped ==
  ASSUME NEW s \in Specs
  PROVE  /\ NewSnapshot(resolvedRevisionSpec(s)) \in Revisions
         /\ NewSnapshot(resolvedRevisionSpec(s)).v = "v2"
         /\ Pod(resolvedRevisionSpec(s)) \in Pods
  <1> DEFINE r == resolvedRevisionSpec(s)
  <1>1. /\ r.model \in Models /\ r.shim \in BOOLEAN /\ r.image \in Images \cup {DefaultImage}
        /\ r.timeout \in Timeouts \cup {DefaultTimeout} /\ r.timeout \in Nat
    BY ResolvedMeans, Zenon
  <1> HIDE DEF r
  <1>2. NewSnapshot(r) \in Revisions /\ NewSnapshot(r).v = "v2"
    BY <1>1, Zenon DEF NewSnapshot, Revisions
  <1>3. Pod(r) \in Pods
    BY <1>1, PodIsPod
  <1>4. QED
    BY <1>2, <1>3, Zenon DEF r

-----------------------------------------------------------------------------
(* The pieces of a pass. *)

Live == NewSnapshot(resolvedRevisionSpec(spec))
Target == targetRevisionForMigration(legacyReferenceFrom, Live)

LEMMA ReferenceTyped ==
  ASSUME TypeInv
  PROVE  legacyReferenceFrom.rev \in Revisions \cup {None}
  BY Zenon DEF TypeInv, StatusType, legacyReferenceFrom, Reference, Deployments

(* The target is an identity, and one that is adopted is one the informer  *)
(* shows.                                                                  *)
LEMMA TargetMeans ==
  ASSUME TypeInv
  PROVE  /\ Target.kind \in {"use", "hold", "refuse"}
         /\ Target.kind # "refuse" => Target.id \in Revisions
         /\ Target.kind # "refuse" /\ Target.adopted => Target.id \in DOMAIN cache
         /\ Target.kind = "hold" => Target.adopted
  <1> DEFINE ref == legacyReferenceFrom
  <1>1. ref.rev \in Revisions \cup {None}
    BY ReferenceTyped, Zenon
  <1>2. Live \in Revisions
    BY LiveTyped, Zenon DEF TypeInv, Live
  <1>3. \/ Target = Use(Live, FALSE)
        \/ Target = Refuse
        \/ Target \in {Use(ref.rev, TRUE), Hold(ref.rev)} /\ ref.rev \in DOMAIN cache
    <2> HIDE DEF ref
    <2>1. currentWorkloadMatchesDeployment(ref.dep) \in {"exact", "telemetry", "different"}
      BY Zenon DEF currentWorkloadMatchesDeployment
    <2> DEFINE how == currentWorkloadMatchesDeployment(ref.dep)
    <2>2. Target =
            IF ref.rev \in {None, Live} THEN Use(Live, FALSE)
            ELSE IF ref.rev \notin DOMAIN cache THEN Refuse
            ELSE IF ref.rev.v = "v2" \/ ~legacyRecordedWorkloadEqual(spec, ref.rev)
            THEN Use(Live, FALSE)
            ELSE IF ref.noRender
            THEN (IF startupTimeoutMatchesDeployment THEN Use(ref.rev, TRUE) ELSE Refuse)
            ELSE IF ref.dep = None THEN Refuse
            ELSE IF ref.dep.rev # ref.rev THEN Refuse
            ELSE CASE how = "different" -> Use(Live, FALSE)
                   [] how = "exact"     -> Use(ref.rev, TRUE)
                   [] how = "telemetry" ->
                        IF st.phase \in Active \cup {"Promoting"} THEN Hold(ref.rev)
                        ELSE Use(ref.rev, TRUE)
      BY Zenon DEF Target, targetRevisionForMigration, ref
    <2> HIDE DEF how
    <2>3. how \in {"exact", "telemetry", "different"}
      BY <2>1, Zenon DEF how
    <2>4. CASE ref.rev \in {None, Live} \/ ref.rev \notin DOMAIN cache
      BY <2>2, <2>4, Zenon
    <2>5. CASE ref.rev \notin {None, Live} /\ ref.rev \in DOMAIN cache
      <3>1. CASE how = "exact"
        BY <2>2, <2>5, <3>1, Zenon
      <3>2. CASE how = "telemetry"
        BY <2>2, <2>5, <3>2, Zenon
      <3>3. CASE how = "different"
        BY <2>2, <2>5, <3>3, Zenon
      <3>4. QED
        BY <2>3, <3>1, <3>2, <3>3, Zenon
    <2>6. QED
      BY <2>4, <2>5, Zenon
  <1> HIDE DEF ref
  <1>4. ref.rev \in DOMAIN cache => ref.rev \in Revisions
    BY Zenon DEF TypeInv
  <1>5. QED
    BY <1>2, <1>3, <1>4 DEF Use, Hold, Refuse

Actions == {"None", "Start", "Wait", "Pause", "Promote", "Rollback"}

LEMMA VerdictsMean ==
  ASSUME TypeInv, NEW target
  PROVE  Verdicts(target) \subseteq Actions
  <1>1. st.phase \in {"Canarying", "Paused", "Promoting", "Idle", "RollingBack"}
    BY Zenon DEF TypeInv, StatusType, Phases, Active
  <1>2. Begin(target) \subseteq {"None", "Start"}
    BY Zenon DEF Begin
  <1>3. QED
    BY <1>1, <1>2, Zenon DEF Verdicts, Actions

(* A plan: where the primary goes, and that the canary is the target.      *)
LEMMA PlannedMeans ==
  ASSUME TypeInv, NEW target \in Revisions, NEW action \in Actions
  PROVE  LET plan == Planned(target, action)
         IN  /\ plan.running = (action \in {"Start", "Wait", "Pause"}) /\ plan.held \in BOOLEAN
             /\ plan.primary \in {target, lastGood}
             /\ plan.held => ~plan.running /\ plan.primary = lastGood
             /\ plan.running => plan.primary = lastGood /\ plan.canary = target
             /\ action = "Rollback" => plan.primary = lastGood
             /\ plan.st \in StatusType
             /\ plan.st.revision = (IF action = "None" THEN None
                                    ELSE IF action = "Rollback" THEN st.revision ELSE target)
             /\ plan.st.phase = (IF action \in {"Start", "Wait"} THEN "Canarying"
                                 ELSE IF action = "Pause" THEN "Paused"
                                 ELSE IF action = "Promote" THEN "Promoting"
                                 ELSE IF action = "Rollback" THEN "RollingBack" ELSE "Idle")
             /\ plan.st.failed = (IF action = "Rollback" THEN st.revision
                                  ELSE IF rolling /\ st.failed # target THEN None ELSE st.failed)
             /\ plan.held = (~plan.running /\ plan.st.failed = target
                               /\ lastGood \notin {None, target})
             /\ (~plan.running /\ ~plan.held /\ action # "Rollback") => plan.primary = target
  <1> DEFINE running == action \in {"Start", "Wait", "Pause"}
             failed == IF action = "Rollback" THEN st.revision
                       ELSE IF rolling /\ st.failed # target THEN None ELSE st.failed
             held == ~running /\ failed = target /\ lastGood \notin {None, target}
             prim == IF running \/ held \/ action = "Rollback" THEN lastGood ELSE target
             can == IF running THEN target ELSE None
             phase == IF action \in {"Start", "Wait"} THEN "Canarying"
                      ELSE IF action = "Pause" THEN "Paused"
                      ELSE IF action = "Promote" THEN "Promoting"
                      ELSE IF action = "Rollback" THEN "RollingBack" ELSE "Idle"
             rev == IF action = "None" THEN None
                    ELSE IF action = "Rollback" THEN st.revision ELSE target
             stab == IF action = "None" THEN None ELSE lastGood
             s == [phase |-> phase, revision |-> rev, failed |-> failed, stable |-> stab]
  <1>1. phase = CASE action \in {"Start", "Wait"} -> "Canarying"
                  [] action = "Pause"    -> "Paused"
                  [] action = "Promote"  -> "Promoting"
                  [] action = "Rollback" -> "RollingBack"
                  [] action = "None"     -> "Idle"
    BY Zenon DEF Actions
  <1>2. rev = CASE action = "None" -> None
                [] action = "Rollback" -> st.revision
                [] OTHER -> target
    BY Zenon
  <1>3. Planned(target, action) =
          [running |-> running, held |-> held, primary |-> prim, canary |-> can, st |-> s]
    BY <1>1, <1>2, Zenon DEF Planned
  <1>4. /\ failed \in Revisions \cup {None} /\ rev \in Revisions \cup {None}
        /\ stab \in Revisions \cup {None} /\ phase \in Phases
    BY Zenon DEF TypeInv, StatusType, Phases, Active
  <1>5. /\ prim \in {target, lastGood} /\ (held => ~running /\ prim = lastGood)
        /\ (running => prim = lastGood /\ can = target)
        /\ (action = "Rollback" => prim = lastGood) /\ held \in BOOLEAN
        /\ (~running /\ ~held /\ action # "Rollback") => prim = target
    BY Zenon
  <1> HIDE DEF prim, can, phase, rev, stab, failed
  <1>6. s \in StatusType /\ s.phase = phase /\ s.revision = rev /\ s.failed = failed
    BY <1>4, Zenon DEF StatusType
  <1> HIDE DEF s, running, held
  <1> DEFINE plan == Planned(target, action)
  <1>7. /\ plan.running = running /\ plan.held = held /\ plan.primary = prim
        /\ plan.canary = can /\ plan.st = s
    BY <1>3
  <1> HIDE DEF plan
  <1>8. /\ plan.running = (action \in {"Start", "Wait", "Pause"}) /\ plan.held \in BOOLEAN
        /\ plan.primary \in {target, lastGood}
        /\ plan.held => ~plan.running /\ plan.primary = lastGood
        /\ plan.running => plan.primary = lastGood /\ plan.canary = target
        /\ action = "Rollback" => plan.primary = lastGood
        /\ (~plan.running /\ ~plan.held /\ action # "Rollback") => plan.primary = target
    BY <1>5, <1>7, Zenon DEF running
  <1>9. plan.st \in StatusType /\ plan.st.revision = rev /\ plan.st.phase = phase
        /\ plan.st.failed = failed
    BY <1>6, <1>7, Zenon
  <1>10. plan.held = (~plan.running /\ plan.st.failed = target /\ lastGood \notin {None, target})
    BY <1>7, <1>9, Zenon DEF held, running
  <1>11. QED
    BY <1>8, <1>9, <1>10, Zenon DEF plan, phase, rev, failed

(* guardAgainstStall may turn a plan that moves the primary into one that  *)
(* holds it at the last good revision.                                     *)
LEMMA PlansMean ==
  ASSUME TypeInv, NEW target \in Revisions, NEW plan \in Plans(target)
  PROVE  \E action \in Verdicts(target) :
           LET base == Planned(target, action)
           IN  \/ plan = base
               \/ /\ ~base.running /\ ~base.held /\ lastGood # None /\ base.primary = target
                  /\ lastGood # target /\ plan.primary = lastGood
                  /\ plan.held = TRUE /\ plan.running = FALSE
                  /\ plan.st = [base.st EXCEPT !.failed = target]
  <1>1. PICK action \in Verdicts(target) :
           plan \in {Planned(target, action), Reverted(Planned(target, action))}
    BY Zenon DEF Plans
  <1> DEFINE base == Planned(target, action)
  <1>2. action \in Actions
    BY VerdictsMean, Zenon
  <1>3. base.primary \in {target, lastGood}
    BY <1>2, PlannedMeans, Zenon
  <1>4. CASE plan = base
    BY <1>4, Zenon
  <1>5. CASE plan = Reverted(base) /\ plan # base
    <2>1. /\ ~(base.running \/ base.held \/ lastGood \in {None, base.primary})
          /\ plan = [base EXCEPT !.primary = lastGood, !.held = TRUE, !.st.failed = base.primary]
      BY <1>5, Zenon DEF Reverted
    <2>2. base.primary = target /\ lastGood # target /\ lastGood # None
      BY <1>3, <2>1, Zenon
    <2>3. ~base.running /\ ~base.held
      BY <2>1, Zenon
    <2>4. DOMAIN base = {"running", "held", "primary", "canary", "st"}
      BY Zenon DEF Planned
    <2> HIDE DEF base
    <2>5. /\ plan.primary = lastGood /\ plan.held = TRUE /\ plan.running = base.running
          /\ plan.st = [base.st EXCEPT !.failed = base.primary]
      BY <2>1, <2>4, Zenon
    <2>6. base.running = FALSE
      <3>1. base.running = (action \in {"Start", "Wait", "Pause"})
        BY <1>2, PlannedMeans, Zenon DEF base
      <3>2. QED
        BY <2>3, <3>1
    <2>7. QED
      BY <2>2, <2>3, <2>5, <2>6, Zenon DEF base
  <1>6. QED
    BY <1>1, <1>4, <1>5, Zenon

(* Whatever is planned, the primary goes to the target or stays at the     *)
(* last good revision, and a canary runs the target.                       *)
LEMMA PlanMeans ==
  ASSUME TypeInv, NEW target \in Revisions, NEW plan \in Plans(target)
  PROVE  /\ plan.running \in BOOLEAN /\ plan.held \in BOOLEAN
         /\ plan.primary \in {target, lastGood}
         /\ plan.held => plan.primary = lastGood
         /\ plan.running => plan.primary = lastGood /\ plan.canary = target
         /\ plan.st \in StatusType
  <1>1. PICK action \in Verdicts(target) :
           LET base == Planned(target, action)
           IN  \/ plan = base
               \/ /\ ~base.running /\ ~base.held /\ lastGood # None /\ base.primary = target
                  /\ lastGood # target /\ plan.primary = lastGood
                  /\ plan.held = TRUE /\ plan.running = FALSE
                  /\ plan.st = [base.st EXCEPT !.failed = target]
    BY PlansMean, ZenonT(60)
  <1> DEFINE base == Planned(target, action)
  <1>2. action \in Actions
    BY VerdictsMean, Zenon
  <1>3. /\ base.running = (action \in {"Start", "Wait", "Pause"}) /\ base.held \in BOOLEAN
        /\ base.primary \in {target, lastGood}
        /\ base.held => base.primary = lastGood
        /\ base.running => base.primary = lastGood /\ base.canary = target
        /\ base.st \in StatusType
    BY <1>2, PlannedMeans, ZenonT(30)
  <1>4. plan = base \/ (/\ plan.primary = lastGood /\ plan.held = TRUE /\ plan.running = FALSE
                        /\ plan.st = [base.st EXCEPT !.failed = target])
    BY <1>1, Zenon
  <1> HIDE DEF base
  <1>5. [base.st EXCEPT !.failed = target] \in StatusType
    BY <1>3, Zenon DEF StatusType
  <1>6. base.running \in BOOLEAN
    BY <1>3
  <1>7. QED
    BY <1>3, <1>4, <1>5, <1>6, Zenon

(* What is rendered under an identity.                                     *)
LEMMA SpecForRevisionMeans ==
  ASSUME TypeInv, NEW target \in Revisions, NEW want, specForRevision(want, target) # Unrendered
  PROVE  /\ specForRevision(want, target) \in Pods
         /\ want \in Revisions
         /\ want = target => specForRevision(want, target) = Pod(resolvedRevisionSpec(spec))
  <1> DEFINE old == [model |-> want.model, shim |-> want.shim, image |-> primary.pod.image,
                     timeout |-> Period * primary.pod.threshold]
  <1>1. CASE want = target
    <2>1. specForRevision(want, target) = Pod(resolvedRevisionSpec(spec))
      BY <1>1, Zenon DEF specForRevision
    <2>2. Pod(resolvedRevisionSpec(spec)) \in Pods
      BY LiveTyped, Zenon DEF TypeInv
    <2>3. QED
      BY <1>1, <2>1, <2>2, Zenon
  <1>2. CASE want # target
    <2>1. want \in DOMAIN cache
      BY <1>2, Zenon DEF specForRevision
    <2>2. want \in Revisions
      BY <2>1, Zenon DEF TypeInv
    <2>3. CASE want.v = "v2"
      <3>1. specForRevision(want, target) = Pod(want)
        BY <1>2, <2>1, <2>3, Zenon DEF specForRevision
      <3>2. /\ want.model \in Models /\ want.image \in Images \cup {DefaultImage}
            /\ want.shim \in BOOLEAN /\ want.timeout \in Timeouts \cup {DefaultTimeout}
        BY <2>2, <2>3, Zenon DEF Revisions
      <3>3. want.timeout \in Int
        <4>1. want.timeout \in Nat
          BY <3>2, MigrationAssumption, Zenon
        <4>2. QED
          BY <4>1
      <3>4. Pod(want) \in Pods
        BY <3>2, <3>3, PodIsPod, Zenon
      <3>5. QED
        BY <1>2, <2>2, <3>1, <3>4, Zenon
    <2>4. CASE want.v # "v2"
      <3>1. /\ primary # None /\ primary.rev = want
            /\ specForRevision(want, target) = Pod(old)
        BY <1>2, <2>1, <2>4, Zenon DEF specForRevision
      <3>2. primary.pod \in Pods
        BY <3>1, Zenon DEF TypeInv, Deployments
      <3>3. /\ want.model \in Models /\ want.shim \in BOOLEAN
            /\ primary.pod.image \in Images \cup OldImages \cup {DefaultImage}
            /\ primary.pod.threshold \in Int
        <4>1. want.model \in Models /\ want.shim \in BOOLEAN
          BY <2>2, Zenon DEF Revisions
        <4>2. /\ primary.pod.image \in Images \cup OldImages \cup {DefaultImage}
              /\ primary.pod.threshold \in Int
          BY <3>2, Zenon DEF Pods
        <4>3. QED
          BY <4>1, <4>2, Zenon
      <3>4. Period * primary.pod.threshold \in Int
        BY <3>3, MigrationAssumption
      <3>5. /\ old.model \in Models /\ old.shim \in BOOLEAN /\ old.timeout \in Int
            /\ old.image \in Images \cup OldImages \cup {DefaultImage}
        BY <3>3, <3>4, Zenon
      <3> HIDE DEF old
      <3>6. Pod(old) \in Pods
        BY <3>5, PodIsPod, Zenon
      <3>7. QED
        BY <1>2, <2>2, <3>1, <3>6, Zenon
    <2>5. QED
      BY <2>3, <2>4, Zenon
  <1>3. QED
    BY <1>1, <1>2, Zenon

(* The record of the target is kept, and so is every revision the status   *)
(* names.                                                                  *)
LEMMA RecordKeeps ==
  ASSUME TypeInv, NEW target \in Revisions, Record(target).ok, recordRevision(target)
  PROVE  /\ DOMAIN store' \subseteq Revisions
         /\ \A id \in DOMAIN store :
              id \in {target, stable, lastGood, st.revision, st.failed} => id \in DOMAIN store'
         /\ (target \in DOMAIN cache => target \in DOMAIN store) => target \in DOMAIN store'
  <1> DEFINE after == Record(target).store
  <1>1. PICK V \in SUBSET (DOMAIN cache \ Keep(target)) : store' = Without(after, V)
    <2>1. PICK V \in Victims(Keep(target)) : store' = Without(after, V)
      BY Zenon DEF recordRevision
    <2>2. V \in SUBSET (DOMAIN cache \ Keep(target))
      BY Zenon DEF Victims
    <2>3. QED
      BY <2>1, <2>2, Zenon
  <1>2. \/ target \in DOMAIN cache /\ after = store
        \/ target \notin DOMAIN cache /\ DOMAIN after = DOMAIN store \cup {target}
    BY Zenon DEF Record
  <1> HIDE DEF after
  <1>3. DOMAIN store' = DOMAIN after \ V
    BY <1>1, Zenon DEF Without
  <1>4. None \notin Revisions
    BY MigrationAssumption, Zenon
  <1>5. target \in Keep(target)
    BY <1>4, Zenon DEF Keep
  <1>6. \A id \in DOMAIN store :
          id \in {target, stable, lastGood, st.revision, st.failed} => id \in Keep(target)
    BY <1>4, Zenon DEF Keep, TypeInv
  <1>7. DOMAIN after \subseteq Revisions
    BY <1>2, Zenon DEF TypeInv
  <1>8. QED
    BY <1>1, <1>2, <1>3, <1>5, <1>6, <1>7, Zenon

(* A pass that renders nothing has only touched the phase.                 *)
GaveUp ==
  /\ outcome' = "terminal" /\ st' = [st EXCEPT !.phase = "Idle"]
  /\ UNCHANGED <<lastGood, stable, primary, canary, converged, service, abort, faults>>

(* A pass that has carried out its plan, its status written or lost.       *)
Carried(target, plan) ==
  /\ outcome' # "terminal"
  /\ plan.primary \in Revisions /\ specForRevision(plan.primary, target) \in Pods
  /\ primary' = Deployed(plan.primary, specForRevision(plan.primary, target))
  /\ converged' = (converged /\ primary' = primary)
  /\ canary' = IF plan.running THEN Deployed(target, Pod(resolvedRevisionSpec(spec))) ELSE None
  /\ abort' = FALSE
  /\ \/ /\ st' = plan.st /\ stable' = plan.primary
        /\ \/ lastGood' = lastGood
           \/ lastGood' = plan.primary /\ converged' /\ ~plan.running
     \/ st' = st /\ stable' = stable /\ lastGood' = lastGood

LEMMA CarryOutMeans ==
  ASSUME TypeInv, NEW target \in Revisions, NEW plan \in Plans(target), CarryOut(target, plan)
  PROVE  \/ GaveUp /\ specForRevision(plan.primary, target) = Unrendered
         \/ Carried(target, plan)
  <1> DEFINE p == specForRevision(plan.primary, target)
             c == IF plan.running THEN specForRevision(plan.canary, target) ELSE None
  <1>1. CASE p = Unrendered
    <2>1. Terminal
      BY <1>1, Zenon DEF CarryOut
    <2>2. QED
      BY <1>1, <2>1, Zenon DEF Terminal, GaveUp
  <1>2. CASE p # Unrendered
    <2>1. Apply(plan, p, c) /\ (WriteStatus(target, plan) \/ LoseStatus)
      BY <1>2, Zenon DEF CarryOut
    <2>2. p \in Pods /\ plan.primary \in Revisions
      BY <1>2, SpecForRevisionMeans, Zenon
    <2>3. plan.running => plan.canary = target
      BY PlanMeans, Zenon
    <2>4. specForRevision(target, target) = Pod(resolvedRevisionSpec(spec))
      BY Zenon DEF specForRevision
    <2>5. /\ primary' = Deployed(plan.primary, p)
          /\ converged' = (converged /\ primary' = primary)
          /\ canary' = (IF plan.running THEN Deployed(target, Pod(resolvedRevisionSpec(spec))) ELSE None)
          /\ abort' = FALSE
      BY <2>1, <2>3, <2>4, Zenon DEF Apply
    <2>6. outcome' # "terminal"
      BY <2>1, Zenon DEF WriteStatus, LoseStatus
    <2>7. \/ /\ st' = plan.st /\ stable' = plan.primary
             /\ \/ lastGood' = lastGood
                \/ lastGood' = plan.primary /\ converged' /\ ~plan.running
          \/ st' = st /\ stable' = stable /\ lastGood' = lastGood
      BY <2>1, Zenon DEF WriteStatus, LoseStatus
    <2>8. QED
      BY <2>2, <2>5, <2>6, <2>7, Zenon DEF Carried
  <1>3. QED
    BY <1>1, <1>2, Zenon

(* A pass: turned away, or for a target that it adopts or records.         *)
Away == UNCHANGED <<Serving, store>> /\ outcome' # "terminal"

Took(target, plan) ==
  /\ target = Target.id /\ target \in Revisions /\ Target.kind # "refuse"
  /\ plan \in Plans(target)
  /\ IF Target.adopted THEN UNCHANGED store ELSE Record(target).ok /\ recordRevision(target)
  /\ \/ GaveUp /\ specForRevision(plan.primary, target) = Unrendered
     \/ Carried(target, plan)

LEMMA ReconcileMeans ==
  ASSUME TypeInv, Reconcile
  PROVE  /\ Away \/ \E target, plan : Took(target, plan)
         /\ hist' = [hist EXCEPT !.unpinned = @ \/ (outcome' = "terminal" /\ Unpinned)]
         /\ UNCHANGED <<spec, rolling, cache>>
  <1> DEFINE r == Target
  <1>1. /\ \/ r.kind = "refuse" /\ TurnedAway("refused")
           \/ r.kind = "hold" /\ ~abort /\ TurnedAway("held")
           \/ r.kind = "use" /\ ~r.adopted /\ ~Record(r.id).ok /\ TurnedAway("unrecorded")
           \/ /\ r.kind = "use" \/ (r.kind = "hold" /\ abort)
              /\ IF r.adopted THEN UNCHANGED store
                 ELSE Record(r.id).ok /\ recordRevision(r.id)
              /\ \E plan \in Plans(r.id) : CarryOut(r.id, plan)
        /\ hist' = [hist EXCEPT !.unpinned = @ \/ (outcome' = "terminal" /\ Unpinned)]
        /\ UNCHANGED <<spec, rolling, cache, edits>>
    BY Zenon DEF Reconcile, Target, Live
  <1>2. r.kind # "refuse" => r.id \in Revisions
    BY TargetMeans, Zenon
  <1> HIDE DEF r
  <1>3. CASE TurnedAway("refused") \/ TurnedAway("held") \/ TurnedAway("unrecorded")
    <2>1. Away
      BY <1>3, Zenon DEF TurnedAway, Away
    <2>2. QED
      BY <1>1, <2>1, Zenon
  <1>4. CASE /\ r.kind = "use" \/ (r.kind = "hold" /\ abort)
             /\ IF r.adopted THEN UNCHANGED store
                ELSE Record(r.id).ok /\ recordRevision(r.id)
             /\ \E plan \in Plans(r.id) : CarryOut(r.id, plan)
    <2>1. r.kind # "refuse"
      BY <1>4, Zenon
    <2>2. PICK plan \in Plans(r.id) : CarryOut(r.id, plan)
      BY <1>4, Zenon
    <2>3. \/ GaveUp /\ specForRevision(plan.primary, r.id) = Unrendered
          \/ Carried(r.id, plan)
      BY <1>2, <2>1, <2>2, CarryOutMeans, Zenon
    <2>4. Took(r.id, plan)
      BY <1>2, <1>4, <2>1, <2>3, Zenon DEF Took, r
    <2>5. QED
      BY <1>1, <2>4, Zenon
  <1>5. QED
    BY <1>1, <1>3, <1>4, Zenon

-----------------------------------------------------------------------------
(* The types. *)

LEMMA LeftTyped ==
  ASSUME NEW s \in Specs, NEW image \in OldImages, NEW scoped \in BOOLEAN
  PROVE  /\ Legacy(s) \in Revisions
         /\ Deployed(Legacy(s), OldPod(s, image, scoped)) \in Deployments
  <1> DEFINE i == IF s.image = Unset THEN image ELSE s.image
             t == IF s.timeout = Unset THEN DefaultTimeout ELSE s.timeout
             n == startupFailureThreshold(t)
             b == s.shim /\ scoped
  <1>1. /\ s.model \in Models /\ s.shim \in BOOLEAN /\ s.port \in Ports
        /\ s.image \in Images \cup {Unset} /\ s.timeout \in Timeouts \cup {Unset}
    BY Zenon DEF Specs
  <1>2. t \in Nat
    BY <1>1, MigrationAssumption, Zenon
  <1>3. n \in Int
    <2>1. t \in Int
      BY <1>2
    <2>2. QED
      BY <2>1, ThresholdIsInt, Zenon
  <1>4. i \in Images \cup OldImages \cup {DefaultImage} /\ b \in BOOLEAN
    BY <1>1, Zenon
  <1>5. OldPod(s, image, scoped) =
          [model |-> s.model, image |-> i, shim |-> s.shim, threshold |-> n, scoped |-> b]
    BY Zenon DEF OldPod
  <1> HIDE DEF i, t, n, b
  <1>6. OldPod(s, image, scoped) \in Pods
    BY <1>1, <1>3, <1>4, <1>5 DEF Pods
  <1>7. Legacy(s) \in Revisions
    BY <1>1, Zenon DEF Legacy, Revisions
  <1>8. QED
    BY <1>6, <1>7, Zenon DEF Deployed, Deployments

(* Every state an old controller may have left.                            *)
LEMMA LeftMeans ==
  ASSUME spec \in Specs, NEW phase, NEW before \in Specs, NEW image \in OldImages,
         NEW scoped \in BOOLEAN, Left(phase, before, image, scoped),
         phase \in {"fresh", "steady", "Canarying", "Paused", "Promoting", "RollingBack",
                    "rejected"}
  PROVE  /\ st \in StatusType
         /\ lastGood \in Revisions \cup {None} /\ stable \in Revisions \cup {None}
         /\ primary \in Deployments \cup {None} /\ canary \in Deployments \cup {None}
         /\ lastGood \in {None, Legacy(before), Legacy(spec)}
         /\ phase = "fresh" => lastGood = None
         /\ phase = "steady" => lastGood = Legacy(spec)
  <1> DEFINE now  == Legacy(spec)
             good == Legacy(before)
             old  == Deployed(good, OldPod(before, image, scoped))
             new  == Deployed(now, OldPod(spec, image, scoped))
  <1>1. now \in Revisions /\ good \in Revisions /\ old \in Deployments /\ new \in Deployments
    BY LeftTyped, Zenon
  <1>2. ASSUME NEW p \in Phases, NEW rev \in Revisions \cup {None},
               NEW failed \in Revisions \cup {None}, NEW g \in Revisions \cup {None}
        PROVE  Status(p, rev, failed, g) \in StatusType
    BY Zenon DEF Status, StatusType
  <1>3. CASE phase = "fresh"
    <2>1. /\ st = Status("Idle", None, None, None) /\ lastGood = None /\ stable = None
          /\ primary = None /\ canary = None
      BY <1>3, Zenon DEF Left, Active
    <2>2. QED
      BY <1>2, <1>3, <2>1, Zenon DEF Phases
  <1>4. CASE phase = "steady"
    <2>1. /\ st = Status("Idle", None, None, now) /\ lastGood = now /\ stable = now
          /\ primary = new /\ canary = None
      BY <1>4, Zenon DEF Left, Active
    <2> HIDE DEF now, new
    <2>2. QED
      BY <1>1, <1>2, <1>4, <2>1, Zenon DEF Phases, now
  <1>5. CASE phase \in Active
    <2>1. /\ st = Status(phase, now, None, good) /\ lastGood = good /\ stable = good
          /\ primary = old /\ canary = new
      BY <1>5, Zenon DEF Left, Active
    <2> HIDE DEF now, good, old, new
    <2>2. QED
      BY <1>1, <1>2, <1>5, <2>1, Zenon DEF Phases, good, Active
  <1>6. CASE phase = "Promoting"
    <2>1. /\ st = Status(phase, now, None, good) /\ lastGood = good /\ stable = now
          /\ primary = new /\ canary = None
      BY <1>6, Zenon DEF Left, Active
    <2> HIDE DEF now, good, old, new
    <2>2. QED
      BY <1>1, <1>2, <1>6, <2>1, Zenon DEF Phases, good
  <1>7. CASE phase = "RollingBack"
    <2>1. /\ st = Status(phase, now, now, good) /\ lastGood = good /\ stable = good
          /\ primary = old /\ canary = None
      BY <1>7, Zenon DEF Left, Active
    <2> HIDE DEF now, good, old, new
    <2>2. QED
      BY <1>1, <1>2, <1>7, <2>1, Zenon DEF Phases, good
  <1>8. CASE phase = "rejected"
    <2>1. /\ st = Status("Idle", None, now, good) /\ lastGood = good /\ stable = good
          /\ primary = old /\ canary = None
      BY <1>8, Zenon DEF Left, Active
    <2> HIDE DEF now, good, old, new
    <2>2. QED
      BY <1>1, <1>2, <1>8, <2>1, Zenon DEF Phases, good
  <1>9. QED
    BY <1>3, <1>4, <1>5, <1>6, <1>7, <1>8, Zenon DEF Active

(* What recording adds to the types: the last good revision has a record,  *)
(* and what the converged primary runs has one if the informer shows one.  *)
PrimaryRecorded ==
  (/\ ~hist.tampered /\ ~hist.unpinned
   /\ converged /\ primary # None /\ primary.rev \in DOMAIN cache)
    => primary.rev \in DOMAIN store

RInv == TypeInv /\ RollbackTargetRecorded /\ PrimaryRecorded

LEMMA InitRInv == Init => RInv
  <1> SUFFICES ASSUME Init PROVE RInv
    BY Zenon
  <1>1. /\ spec \in Specs /\ rolling \in BOOLEAN /\ abort = FALSE
        /\ converged = (primary # None) /\ cache = store
    BY Zenon DEF Init
  <1>2. PICK phase \in {"fresh", "steady", "Canarying", "Paused", "Promoting", "RollingBack",
                        "rejected"},
             before \in { s \in Specs : s.model # spec.model
                                          /\ [s EXCEPT !.model = spec.model] = spec },
             image \in OldImages, scoped \in BOOLEAN :
          /\ rolling => phase \in {"fresh", "steady", "rejected"}
          /\ Left(phase, before, image, scoped)
          /\ store = [id \in (IF phase = "fresh" THEN {}
                              ELSE IF phase = "steady" THEN {Legacy(spec)}
                              ELSE {Legacy(before), Legacy(spec)})
                        |-> IF id = Legacy(spec) THEN 2 ELSE 1]
          /\ hist = [touched |-> phase = "fresh" \/ image # DefaultImage, tampered |-> FALSE,
                     unpinned |-> FALSE]
    BY Zenon DEF Init
  <1>3. before \in Specs
    BY Zenon
  <1>4. /\ st \in StatusType
        /\ lastGood \in Revisions \cup {None} /\ stable \in Revisions \cup {None}
        /\ primary \in Deployments \cup {None} /\ canary \in Deployments \cup {None}
        /\ lastGood \in {None, Legacy(before), Legacy(spec)}
        /\ phase = "fresh" => lastGood = None
        /\ phase = "steady" => lastGood = Legacy(spec)
    <2>1. /\ Left(phase, before, image, scoped)
          /\ phase \in {"fresh", "steady", "Canarying", "Paused", "Promoting", "RollingBack",
                       "rejected"}
      BY <1>2, Zenon
    <2>2. spec \in Specs
      BY <1>1, Zenon
    <2>3. QED
      BY <1>3, <2>1, <2>2, LeftMeans, ZenonT(30)
  <1>5. DOMAIN store = IF phase = "fresh" THEN {}
                       ELSE IF phase = "steady" THEN {Legacy(spec)}
                       ELSE {Legacy(before), Legacy(spec)}
    BY <1>2, Zenon
  <1>6. Legacy(spec) \in Revisions /\ Legacy(before) \in Revisions
    BY <1>1, <1>3, LeftTyped, Zenon
  <1>7. hist \in [touched : BOOLEAN, tampered : BOOLEAN, unpinned : BOOLEAN]
    <2> DEFINE b == phase = "fresh" \/ image # DefaultImage
    <2>1. b \in BOOLEAN
      BY Zenon
    <2> HIDE DEF b
    <2>2. hist = [touched |-> b, tampered |-> FALSE, unpinned |-> FALSE]
      BY <1>2, Zenon DEF b
    <2>3. QED
      BY <2>1, <2>2, Zenon
  <1>8. TypeInv
    BY <1>1, <1>4, <1>5, <1>6, <1>7, Zenon DEF TypeInv
  <1>9. lastGood # None => lastGood \in DOMAIN store
    BY <1>4, <1>5, Zenon
  <1>10. QED
    BY <1>1, <1>8, <1>9, Zenon DEF RInv, RollbackTargetRecorded, PrimaryRecorded

(* A pass.  What a converged primary runs is the target of the pass or the *)
(* last good revision, and both are pinned, unless the pass gives up.      *)
LEMMA HistoryMoves ==
  ASSUME TypeInv, hist' = [hist EXCEPT !.unpinned = @ \/ (outcome' = "terminal" /\ Unpinned)]
  PROVE  /\ hist' \in [touched : BOOLEAN, tampered : BOOLEAN, unpinned : BOOLEAN]
         /\ hist'.touched = hist.touched /\ hist'.tampered = hist.tampered
         /\ hist.unpinned \/ (outcome' = "terminal" /\ Unpinned) => hist'.unpinned
  <1> DEFINE b == hist.unpinned \/ (outcome' = "terminal" /\ Unpinned)
  <1>1. hist' = [hist EXCEPT !.unpinned = b] /\ b \in BOOLEAN
    BY Zenon DEF TypeInv
  <1>2. hist \in [touched : BOOLEAN, tampered : BOOLEAN, unpinned : BOOLEAN]
    BY Zenon DEF TypeInv
  <1> HIDE DEF b
  <1>3. /\ hist' \in [touched : BOOLEAN, tampered : BOOLEAN, unpinned : BOOLEAN]
        /\ hist'.touched = hist.touched /\ hist'.tampered = hist.tampered
        /\ hist'.unpinned = b
    BY <1>1, <1>2, Zenon
  <1>4. QED
    BY <1>3, Zenon DEF b

LEMMA TookTyped ==
  ASSUME TypeInv, NEW target, NEW plan, Took(target, plan), UNCHANGED <<spec, rolling, cache>>,
         hist' \in [touched : BOOLEAN, tampered : BOOLEAN, unpinned : BOOLEAN]
  PROVE  TypeInv'
  <1>1. target \in Revisions /\ plan \in Plans(target)
    BY Zenon DEF Took
  <1>2. DOMAIN store' \subseteq Revisions
    <2>1. CASE UNCHANGED store
      BY <2>1, Zenon DEF TypeInv
    <2>2. CASE Record(target).ok /\ recordRevision(target)
      BY <1>1, <2>2, RecordKeeps, Zenon
    <2>3. QED
      BY <2>1, <2>2, Zenon DEF Took
  <1>3. CASE GaveUp
    <2>1. st' \in StatusType
      BY <1>3, Zenon DEF GaveUp, TypeInv, StatusType, Phases
    <2>2. QED
      BY <1>2, <1>3, <2>1, Zenon DEF TypeInv, GaveUp
  <1>4. CASE Carried(target, plan)
    <2>1. plan.st \in StatusType /\ plan.running \in BOOLEAN
      BY <1>1, PlanMeans, Zenon
    <2>2. st' \in StatusType /\ stable' \in Revisions \cup {None}
          /\ lastGood' \in Revisions \cup {None}
      BY <1>4, <2>1, Zenon DEF Carried, TypeInv
    <2>3. primary' \in Deployments
      BY <1>4, Zenon DEF Carried, Deployed, Deployments
    <2>4. Pod(resolvedRevisionSpec(spec)) \in Pods
      BY LiveTyped, Zenon DEF TypeInv
    <2>5. canary' \in Deployments \cup {None}
      BY <1>1, <1>4, <2>4, Zenon DEF Carried, Deployed, Deployments
    <2>6. converged' \in BOOLEAN /\ abort' \in BOOLEAN
      BY <1>4, Zenon DEF Carried
    <2>7. QED
      BY <1>2, <2>2, <2>3, <2>5, <2>6, Zenon DEF TypeInv
  <1>5. QED
    BY <1>3, <1>4, Zenon DEF Took

LEMMA ReconcileKeepsRInv ==
  ASSUME RInv, Reconcile
  PROVE  RInv'
  <1>1. TypeInv /\ RollbackTargetRecorded /\ PrimaryRecorded
    BY Zenon DEF RInv
  <1>2. /\ Away \/ \E target, plan : Took(target, plan)
        /\ hist' = [hist EXCEPT !.unpinned = @ \/ (outcome' = "terminal" /\ Unpinned)]
        /\ UNCHANGED <<spec, rolling, cache>>
    BY <1>1, ReconcileMeans, Zenon
  <1>3. /\ hist' \in [touched : BOOLEAN, tampered : BOOLEAN, unpinned : BOOLEAN]
        /\ hist'.tampered = hist.tampered
        /\ hist.unpinned \/ (outcome' = "terminal" /\ Unpinned) => hist'.unpinned
    BY <1>1, <1>2, HistoryMoves, Zenon
  <1>4. CASE Away
    <2>1. TypeInv'
      BY <1>1, <1>2, <1>3, <1>4, Zenon DEF TypeInv, Away, Serving
    <2>2. RollbackTargetRecorded' /\ PrimaryRecorded'
      BY <1>1, <1>2, <1>3, <1>4, Zenon DEF RollbackTargetRecorded, PrimaryRecorded, Away, Serving
    <2>3. QED
      BY <2>1, <2>2, Zenon DEF RInv
  <1>5. ASSUME NEW target, NEW plan, Took(target, plan) PROVE RInv'
    <2>1. TypeInv'
      BY <1>1, <1>2, <1>3, <1>5, TookTyped, Zenon
    <2>2. target \in Revisions /\ plan \in Plans(target)
      BY <1>5, Zenon DEF Took
    <2>3. SUFFICES ASSUME ~hist'.tampered, ~hist'.unpinned
                   PROVE  /\ lastGood' # None => lastGood' \in DOMAIN store'
                          /\ (converged' /\ primary' # None /\ primary'.rev \in DOMAIN cache')
                               => primary'.rev \in DOMAIN store'
      BY <2>1, Zenon DEF RInv, RollbackTargetRecorded, PrimaryRecorded
    <2>4. /\ ~hist.tampered /\ ~hist.unpinned /\ ~(outcome' = "terminal" /\ Unpinned)
          /\ lastGood # None => lastGood \in DOMAIN store
          /\ (converged /\ primary # None /\ primary.rev \in DOMAIN cache)
               => primary.rev \in DOMAIN store
      BY <1>1, <1>3, <2>3, Zenon DEF RollbackTargetRecorded, PrimaryRecorded
    <2>5. /\ \A id \in DOMAIN store :
               id \in {target, stable, lastGood} => id \in DOMAIN store'
          /\ (target \in DOMAIN cache => target \in DOMAIN store) => target \in DOMAIN store'
      <3>1. CASE Target.adopted
        <4>1. store' = store /\ target \in DOMAIN cache
          BY <1>1, <1>5, <3>1, TargetMeans, Zenon DEF Took
        <4>2. QED
          BY <4>1, Zenon
      <3>2. CASE ~Target.adopted
        <4>1. Record(target).ok /\ recordRevision(target)
          BY <1>5, <3>2, Zenon DEF Took
        <4>2. QED
          BY <1>1, <2>2, <4>1, RecordKeeps, Zenon
      <3>3. QED
        BY <3>1, <3>2, Zenon
    <2>6. CASE GaveUp
      <3>1. primary # None => primary.rev = stable
        BY <2>4, <2>6, Zenon DEF GaveUp, Unpinned
      <3>2. QED
        BY <1>2, <2>4, <2>5, <2>6, <3>1, Zenon DEF GaveUp
    <2>7. CASE Carried(target, plan)
      <3>1. plan.primary \in {target, lastGood} /\ plan.primary # None
        BY <1>1, <2>2, <2>7, PlanMeans, MigrationAssumption, Zenon DEF Carried
      <3>2. primary'.rev = plan.primary
        BY <2>7, Zenon DEF Carried, Deployed
      <3>3. ASSUME converged', primary' # None, plan.primary \in DOMAIN cache \/ plan.primary = target
            PROVE  plan.primary \in DOMAIN store'
        <4>1. converged /\ primary' = primary
          BY <2>7, <3>3, Zenon DEF Carried
        <4>2. plan.primary = primary.rev
          BY <3>2, <4>1, Zenon
        <4>3. CASE plan.primary = lastGood
          BY <2>4, <2>5, <3>1, <4>3, Zenon
        <4>4. CASE plan.primary = target
          BY <2>4, <2>5, <3>3, <4>1, <4>2, <4>4, Zenon
        <4>5. QED
          BY <3>1, <4>3, <4>4, Zenon
      <3>4. primary' # None
        BY <2>1, <2>7, MigrationAssumption DEF Carried, Deployed, Deployments
      <3>5. lastGood' # None => lastGood' \in DOMAIN store'
        <4>1. CASE lastGood' = lastGood
          BY <2>4, <2>5, <4>1, Zenon
        <4>2. CASE lastGood' = plan.primary /\ converged' /\ plan.primary # lastGood
          BY <3>1, <3>3, <3>4, <4>2, Zenon
        <4>3. QED
          BY <2>7, <4>1, <4>2, Zenon DEF Carried
      <3>6. QED
        BY <1>2, <3>2, <3>3, <3>5, Zenon
    <2>8. QED
      BY <1>5, <2>6, <2>7, Zenon DEF Took
  <1>6. QED
    BY <1>2, <1>4, <1>5, Zenon

LEMMA EditKeepsRInv ==
  ASSUME RInv, NEW s \in Specs, Edit(s)
  PROVE  RInv'
  <1> DEFINE b == hist.touched \/ [s EXCEPT !.port = spec.port] # spec
  <1>1. /\ hist \in [touched : BOOLEAN, tampered : BOOLEAN, unpinned : BOOLEAN] /\ TypeInv
        /\ b \in BOOLEAN
    BY Zenon DEF RInv, TypeInv
  <1>2. hist' = [hist EXCEPT !.touched = b] /\ spec' = s
    BY Zenon DEF Edit
  <1> HIDE DEF b
  <1>3. /\ hist' \in [touched : BOOLEAN, tampered : BOOLEAN, unpinned : BOOLEAN]
        /\ hist'.tampered = hist.tampered /\ hist'.unpinned = hist.unpinned
    BY <1>1, <1>2, Zenon
  <1>4. UNCHANGED <<Serving, rolling, store, cache>>
    BY Zenon DEF Edit
  <1>5. TypeInv'
    BY <1>1, <1>2, <1>3, <1>4, Zenon DEF TypeInv, Serving
  <1>6. RollbackTargetRecorded' /\ PrimaryRecorded'
    BY <1>3, <1>4, Zenon DEF RInv, RollbackTargetRecorded, PrimaryRecorded, Serving
  <1>7. QED
    BY <1>5, <1>6, Zenon DEF RInv

(* A loss is remembered.                                                   *)
LEMMA TamperKeepsRInv ==
  ASSUME RInv, Tamper
  PROVE  RInv'
  <1>1. TypeInv
    BY Zenon DEF RInv
  <1>2. /\ hist' \in [touched : BOOLEAN, tampered : BOOLEAN, unpinned : BOOLEAN]
        /\ hist'.tampered = TRUE
    BY <1>1, Zenon DEF TypeInv, Tamper
  <1>3. DOMAIN store' \subseteq DOMAIN store
    BY Zenon DEF Tamper, Without
  <1>4. /\ primary' \in {primary, None} /\ canary' \in {canary, None}
        /\ converged' \in {converged, FALSE}
        /\ UNCHANGED <<spec, rolling, st, lastGood, stable, abort, cache>>
    BY Zenon DEF Tamper
  <1>5. TypeInv'
    BY <1>1, <1>2, <1>3, <1>4, Zenon DEF TypeInv
  <1>6. QED
    BY <1>2, <1>5, Zenon DEF RInv, RollbackTargetRecorded, PrimaryRecorded

LEMMA NextRInv == RInv /\ [Next]_mvars => RInv'
  <1> SUFFICES ASSUME RInv, [Next]_mvars PROVE RInv'
    BY Zenon
  <1> USE DEF RInv, TypeInv, RollbackTargetRecorded, PrimaryRecorded
  <1>1. CASE Reconcile
    BY <1>1, ReconcileKeepsRInv, Zenon
  <1>2. ASSUME NEW s \in Specs, Edit(s) PROVE RInv'
    BY <1>2, EditKeepsRInv, Zenon
  <1>3. CASE Annotate
    BY <1>3, Zenon DEF Annotate
  <1>4. CASE Converge
    BY <1>4, Zenon DEF Converge
  <1>5. CASE CacheCatchesUp
    BY <1>5 DEF CacheCatchesUp, Serving
  <1>6. CASE Tamper
    BY <1>6, TamperKeepsRInv, Zenon
  <1>7. CASE UNCHANGED mvars
    BY <1>7 DEF mvars
  <1>8. QED
    BY <1>1, <1>2, <1>3, <1>4, <1>5, <1>6, <1>7, Zenon DEF Next

LEMMA AlwaysRInv == Spec => []RInv
  BY InitRInv, NextRInv, PTL DEF Spec

(* The record of the last good revision, which a rollback renders, is      *)
(* never pruned: whatever the limit, however many revisions come and go,   *)
(* however far the informer lags and whichever status writes are lost      *)
(* (modeldeployment_controller.go, recordRevision; history.go, Prune).     *)
THEOREM RollbackTargetAlwaysRecorded == Spec => []RollbackTargetRecorded
  <1>1. RInv => RollbackTargetRecorded
    BY Zenon DEF RInv
  <1>2. QED
    BY <1>1, AlwaysRInv, PTL

-----------------------------------------------------------------------------
(* The change of format. *)

(* A Deployment that runs the live workload, but for the telemetry         *)
(* arguments.                                                              *)
RunsLive(d) ==
  LET live == Pod(resolvedRevisionSpec(spec))
  IN  d.pod \in {live, [live EXCEPT !.scoped = FALSE]}

(* While nobody changes the workload, `now` is its identity in the old     *)
(* format: the only revision a status is about, whichever phase the old    *)
(* controller left and whichever status writes were lost since.            *)
Settled(now) ==
  /\ cache = store /\ {now, lastGood} \subseteq DOMAIN store
  /\ now.v = "legacy" /\ lastGood.v = "legacy" /\ legacyRecordedWorkloadEqual(spec, now)
  /\ stable \in {now, lastGood}
  /\ primary # None /\ primary.rev \in {now, lastGood}
  /\ primary.rev = now => RunsLive(primary)
  /\ canary # None => canary.rev = now /\ RunsLive(canary)
  /\ st.revision \in {None, now} /\ st.failed \in {None, now}
  /\ (st.phase \in {"Idle", "Promoting"} /\ st.failed = None) => primary.rev = now /\ stable = now
  /\ st.phase \in Active => /\ st.revision = now /\ st.failed = None
                            /\ canary = None \/ primary.rev = lastGood
  /\ st.phase \in {"Promoting", "RollingBack"} => st.revision = now
  /\ st.phase = "RollingBack" => st.failed = now

QInv == (~hist.touched /\ ~hist.tampered) => \E now \in Revisions : Settled(now)

(* The migration finds `now` again, or waits.                              *)
LEMMA QuietTarget ==
  ASSUME TypeInv, NEW now \in Revisions, Settled(now), Target.kind # "refuse"
  PROVE  /\ Target.id = now /\ Target.adopted
         /\ st.phase \in Active => canary # None
         /\ st.phase = "Promoting" => primary.rev = now
  <1> DEFINE ref == legacyReferenceFrom
  <1>1. now # None /\ now # Live
    <2>1. Live.v = "v2"
      BY LiveTyped, Zenon DEF TypeInv, Live
    <2>2. QED
      BY <2>1, MigrationAssumption, Zenon DEF Settled
  <1>2. st.phase \in {"Canarying", "Paused", "Promoting", "Idle", "RollingBack"}
    BY Zenon DEF TypeInv, StatusType, Phases, Active
  <1>3. \/ st.phase \in Active /\ ref = Reference(now, canary, FALSE)
        \/ st.phase \notin Active /\ ref = Reference(now, None, TRUE) /\ st.phase # "Promoting"
        \/ /\ st.phase \notin Active /\ ref = Reference(now, primary, FALSE)
           /\ st.phase # "Promoting" => primary.rev = now
    <2>1. CASE st.phase \in Active
      BY <1>1, <2>1, Zenon DEF Settled, legacyReferenceFrom
    <2>2. CASE st.phase = "Promoting"
      BY <1>1, <2>2, Zenon DEF Settled, legacyReferenceFrom, Active
    <2>3. CASE st.phase = "RollingBack"
      BY <1>1, <2>3, Zenon DEF Settled, legacyReferenceFrom, Active
    <2>4. CASE st.phase = "Idle" /\ st.failed # None
      <3>1. ref = Reference(st.failed, None, TRUE)
        BY <2>4, Zenon DEF legacyReferenceFrom, Active
      <3>2. st.failed = now
        BY <2>4, Zenon DEF Settled
      <3>3. QED
        BY <2>4, <3>1, <3>2, Zenon DEF Active
    <2>5. CASE st.phase = "Idle" /\ st.failed = None
      <3>1. primary.rev = now /\ stable = now /\ primary # None
        BY <2>5, Zenon DEF Settled
      <3>2. ref = Reference(primary.rev, primary, FALSE)
        BY <2>5, <3>1, Zenon DEF legacyReferenceFrom, Active
      <3>3. QED
        BY <2>5, <3>1, <3>2, Zenon DEF Active
    <2>6. QED
      BY <1>2, <2>1, <2>2, <2>3, <2>4, <2>5, Zenon DEF Active
  <1> DEFINE how == currentWorkloadMatchesDeployment(ref.dep)
  <1>4. Target =
          IF ref.rev \in {None, Live} THEN Use(Live, FALSE)
          ELSE IF ref.rev \notin DOMAIN cache THEN Refuse
          ELSE IF ref.rev.v = "v2" \/ ~legacyRecordedWorkloadEqual(spec, ref.rev)
          THEN Use(Live, FALSE)
          ELSE IF ref.noRender
          THEN (IF startupTimeoutMatchesDeployment THEN Use(ref.rev, TRUE) ELSE Refuse)
          ELSE IF ref.dep = None THEN Refuse
          ELSE IF ref.dep.rev # ref.rev THEN Refuse
          ELSE CASE how = "different" -> Use(Live, FALSE)
                 [] how = "exact"     -> Use(ref.rev, TRUE)
                 [] how = "telemetry" ->
                      IF st.phase \in Active \cup {"Promoting"} THEN Hold(ref.rev)
                      ELSE Use(ref.rev, TRUE)
    BY Zenon DEF Target, targetRevisionForMigration
  <1>5. ref.rev = now
    BY <1>3 DEF Reference
  <1>6. ref.dep # None /\ ref.dep.rev = now /\ ~ref.noRender => how \in {"exact", "telemetry"}
    <2>1. SUFFICES ASSUME ref.dep # None, ref.dep.rev = now, ~ref.noRender
                   PROVE  how \in {"exact", "telemetry"}
      BY Zenon
    <2>2. ref.dep \in {primary, canary}
      BY <1>3, <2>1 DEF Reference
    <2>3. RunsLive(ref.dep)
      BY <2>1, <2>2, Zenon DEF Settled
    <2> HIDE DEF ref
    <2>4. QED
      BY <2>3, Zenon DEF RunsLive, currentWorkloadMatchesDeployment
  <1>7. /\ now \in DOMAIN cache /\ now.v # "v2" /\ legacyRecordedWorkloadEqual(spec, now)
    BY Zenon DEF Settled
  <1>8. Refuse.kind = "refuse"
    BY Zenon DEF Refuse
  <1> HIDE DEF how
  <1>9. CASE ref.noRender
    <2>1. Target = Use(now, TRUE)
      BY <1>1, <1>4, <1>5, <1>7, <1>8, <1>9, Zenon
    <2>2. st.phase \notin Active /\ st.phase # "Promoting"
      BY <1>3, <1>9 DEF Reference
    <2>3. QED
      BY <2>1, <2>2, Zenon DEF Use
  <1>10. CASE ~ref.noRender
    <2>1. ref.dep # None /\ ref.dep.rev = now
      BY <1>1, <1>4, <1>5, <1>7, <1>8, <1>10, Zenon
    <2>2. how \in {"exact", "telemetry"}
      BY <1>6, <1>10, <2>1, Zenon
    <2>3. Target \in {Use(now, TRUE), Hold(now)}
      <3>1. CASE how = "exact"
        BY <1>1, <1>4, <1>5, <1>7, <1>10, <2>1, <3>1, Zenon
      <3>2. CASE how = "telemetry"
        BY <1>1, <1>4, <1>5, <1>7, <1>10, <2>1, <3>2, Zenon
      <3>3. QED
        BY <2>2, <3>1, <3>2, Zenon
    <2>4. /\ st.phase \in Active => ref.dep = canary
          /\ st.phase = "Promoting" => ref.dep = primary
      BY <1>3, <1>10 DEF Reference, Active
    <2>5. QED
      BY <2>1, <2>3, <2>4 DEF Use, Hold
  <1>11. QED
    BY <1>9, <1>10, Zenon

(* What can be rendered: the target always, and another last good revision *)
(* exactly while the primary still runs it.                                *)
LEMMA QuietRender ==
  ASSUME TypeInv, NEW now \in Revisions, Settled(now)
  PROVE  /\ specForRevision(now, now) \in Pods
         /\ lastGood # now =>
              (specForRevision(lastGood, now) \in Pods <=> primary.rev = lastGood)
  <1>1. specForRevision(now, now) \in Pods
    <2>1. specForRevision(now, now) = Pod(resolvedRevisionSpec(spec))
      BY Zenon DEF specForRevision
    <2>2. Pod(resolvedRevisionSpec(spec)) \in Pods
      BY LiveTyped, Zenon DEF TypeInv
    <2>3. QED
      BY <2>1, <2>2, Zenon
  <1>2. ASSUME lastGood # now, primary.rev # lastGood
        PROVE  specForRevision(lastGood, now) \notin Pods
    <2>1. specForRevision(lastGood, now) = Unrendered
      <3>1. lastGood \in DOMAIN cache /\ lastGood.v # "v2" /\ primary # None
        BY Zenon DEF Settled
      <3>2. QED
        BY <1>2, <3>1, Zenon DEF specForRevision
    <2>2. QED
      BY <2>1, UnrenderedIsNoPod, Zenon
  <1>3. ASSUME lastGood # now, primary.rev = lastGood
        PROVE  specForRevision(lastGood, now) \in Pods
    <2> DEFINE old == [model |-> lastGood.model, shim |-> lastGood.shim,
                       image |-> primary.pod.image,
                       timeout |-> Period * primary.pod.threshold]
    <2>1. lastGood \in DOMAIN cache /\ lastGood.v # "v2" /\ primary # None
      BY Zenon DEF Settled
    <2>2. specForRevision(lastGood, now) = Pod(old)
      BY <1>3, <2>1, Zenon DEF specForRevision
    <2>3. lastGood \in Revisions /\ primary.pod \in Pods
      BY <2>1, Zenon DEF TypeInv, Deployments
    <2>4. lastGood.model \in Models /\ lastGood.shim \in BOOLEAN
      BY <2>3, Zenon DEF Revisions
    <2>5. /\ primary.pod.image \in Images \cup OldImages \cup {DefaultImage}
          /\ primary.pod.threshold \in Int
      BY <2>3, Zenon DEF Pods
    <2>6. Period * primary.pod.threshold \in Int
      BY <2>5, MigrationAssumption
    <2>7. /\ old.model \in Models /\ old.shim \in BOOLEAN /\ old.timeout \in Int
          /\ old.image \in Images \cup OldImages \cup {DefaultImage}
      BY <2>4, <2>5, <2>6, Zenon
    <2> HIDE DEF old
    <2>8. Pod(old) \in Pods
      BY <2>7, PodIsPod, Zenon
    <2>9. QED
      BY <2>2, <2>8, Zenon
  <1>4. QED
    BY <1>1, <1>2, <1>3, Zenon

(* What a pass over a settled state plans.                                 *)
LEMMA QuietPlan ==
  ASSUME TypeInv, NEW now \in Revisions, Settled(now), NEW plan \in Plans(now),
         st.phase = "Promoting" => primary.rev = now,
         specForRevision(plan.primary, now) \in Pods
  PROVE  /\ plan.primary \in {now, lastGood} /\ (plan.running => plan.primary = lastGood)
         /\ plan.st.revision \in {None, now} /\ plan.st.failed \in {None, now}
         /\ (plan.st.phase \in {"Idle", "Promoting"} /\ plan.st.failed = None) => plan.primary = now
         /\ plan.st.phase \in Active => plan.st.revision = now /\ plan.st.failed = None /\ plan.running
         /\ plan.st.phase \in {"Promoting", "RollingBack"} => plan.st.revision = now
         /\ plan.st.phase = "RollingBack" => plan.st.failed = now
         /\ (st.phase \in {"Idle", "Promoting"} /\ st.failed = None) => plan.primary = now
  <1>1. PICK action \in Verdicts(now) :
           LET base == Planned(now, action)
           IN  \/ plan = base
               \/ /\ ~base.running /\ ~base.held /\ lastGood # None /\ base.primary = now
                  /\ lastGood # now /\ plan.primary = lastGood
                  /\ plan.held = TRUE /\ plan.running = FALSE
                  /\ plan.st = [base.st EXCEPT !.failed = now]
    BY PlansMean, ZenonT(60)
  <1> DEFINE base == Planned(now, action)
  <1>2. action \in Actions
    BY VerdictsMean, Zenon
  <1>3. /\ base.running = (action \in {"Start", "Wait", "Pause"}) /\ base.held \in BOOLEAN
        /\ base.primary \in {now, lastGood}
        /\ base.held => ~base.running /\ base.primary = lastGood
        /\ base.running => base.primary = lastGood /\ base.canary = now
        /\ action = "Rollback" => base.primary = lastGood
        /\ base.st \in StatusType
        /\ base.st.revision = (IF action = "None" THEN None
                               ELSE IF action = "Rollback" THEN st.revision ELSE now)
        /\ base.st.phase = (IF action \in {"Start", "Wait"} THEN "Canarying"
                            ELSE IF action = "Pause" THEN "Paused"
                            ELSE IF action = "Promote" THEN "Promoting"
                            ELSE IF action = "Rollback" THEN "RollingBack" ELSE "Idle")
        /\ base.st.failed = (IF action = "Rollback" THEN st.revision
                             ELSE IF rolling /\ st.failed # now THEN None ELSE st.failed)
        /\ base.held = (~base.running /\ base.st.failed = now
                          /\ lastGood \notin {None, now})
        /\ (~base.running /\ ~base.held /\ action # "Rollback") => base.primary = now
    BY <1>2, PlannedMeans, Zenon
  <1>4. \/ plan = base
        \/ /\ ~base.running /\ base.primary = now
           /\ lastGood # now /\ plan.primary = lastGood /\ plan.running = FALSE
           /\ plan.st = [base.st EXCEPT !.failed = now]
    BY <1>1, Zenon
  <1> HIDE DEF base
  <1>5. st.phase \in {"Canarying", "Paused", "Promoting", "Idle", "RollingBack"} /\ now # None
    BY MigrationAssumption, Zenon DEF TypeInv, StatusType, Phases, Active
  (* The phases of a rollout that runs, and of one that may start.         *)
  <1>6. /\ action = "Rollback" => st.revision = now
        /\ action \in {"Wait", "Pause"} => st.phase \in Active
        /\ action = "Start" => lastGood # now /\ st.phase = "Idle" /\ st.failed = None
    <2>1. Begin(now) \subseteq {"None", "Start"}
          /\ ("Start" \in Begin(now) => now # st.failed /\ now # lastGood)
      BY Zenon DEF Begin
    <2>2. CASE rolling
      <3>1. action = "None"
        BY <2>2, Zenon DEF Verdicts
      <3>2. QED
        BY <3>1, Zenon
    <2>3. CASE ~rolling /\ st.phase \in Active
      <3>1. st.revision = now
        BY <2>3, Zenon DEF Settled
      <3>2. action \in {"Wait", "Pause", "Promote", "Rollback"}
        BY <2>3, <3>1, Zenon DEF Verdicts, Active
      <3>3. QED
        BY <2>3, <3>1, <3>2, Zenon
    <2>4. CASE ~rolling /\ st.phase = "Promoting"
      <3>1. st.revision = now
        BY <2>4, Zenon DEF Settled
      <3>2. action \in {"None", "Promote"}
        BY <2>4, <3>1, Zenon DEF Verdicts, Active
      <3>3. QED
        BY <3>2, Zenon
    <2>5. CASE ~rolling /\ st.phase \in {"Idle", "RollingBack"}
      <3>1. action \in Begin(now)
        BY <2>5, Zenon DEF Verdicts, Active
      <3>2. action = "Start" => now # st.failed /\ now # lastGood
        BY <2>1, <3>1, Zenon
      <3>3. st.phase = "RollingBack" => st.failed = now
        BY Zenon DEF Settled
      <3>4. st.failed \in {None, now}
        BY Zenon DEF Settled
      <3>5. QED
        BY <2>1, <2>5, <3>1, <3>2, <3>3, <3>4, Zenon
    <2>6. QED
      BY <1>5, <2>2, <2>3, <2>4, <2>5, Zenon DEF Active
  (* The primary cannot go back from the target to a revision in the old   *)
  (* format.                                                               *)
  <1>7. primary.rev = now /\ lastGood # now => plan.primary # lastGood
    BY QuietRender, Zenon
  <1>8. (st.phase \in {"Idle", "Promoting"} /\ st.failed = None) => primary.rev = now
    BY Zenon DEF Settled
  <1>9. /\ st.revision \in {None, now} /\ st.failed \in {None, now}
        /\ st.phase \in Active => st.failed = None
    BY Zenon DEF Settled
  <1>10. action # "Start"
    <2>1. SUFFICES ASSUME action = "Start" PROVE FALSE
      BY Zenon
    <2>2. base.running = TRUE /\ base.primary = lastGood
      BY <1>3, <2>1, Zenon
    <2>3. plan.primary = lastGood
      BY <1>4, <2>2, Zenon
    <2>4. QED
      BY <1>6, <1>7, <1>8, <2>1, <2>3, Zenon
  <1>11. base.st.failed = None /\ ~base.running => action # "Rollback" /\ base.primary = now
    <2>1. SUFFICES ASSUME base.st.failed = None, ~base.running
                   PROVE  action # "Rollback" /\ base.primary = now
      BY Zenon
    <2>2. action # "Rollback"
      BY <1>3, <1>5, <1>6, <2>1, Zenon
    <2>3. ~base.held
      BY <1>3, <1>5, <2>1, Zenon
    <2>4. QED
      BY <1>3, <2>1, <2>2, <2>3, Zenon
  <1>12. CASE plan = base
    <2>1. /\ plan.st.revision \in {None, now} /\ plan.st.failed \in {None, now}
          /\ plan.st.phase \in Active => plan.st.revision = now /\ plan.st.failed = None /\ plan.running
          /\ plan.st.phase \in {"Promoting", "RollingBack"} => plan.st.revision = now
          /\ plan.st.phase = "RollingBack" => plan.st.failed = now
      <3>1. action \in {"None", "Wait", "Pause", "Promote", "Rollback"}
        BY <1>2, <1>10, Zenon DEF Actions
      <3>2. QED
        BY <1>3, <1>6, <1>9, <1>12, <3>1, Zenon DEF Active
    <2>2. plan.st.phase \in {"Idle", "Promoting"} => ~plan.running
      BY <1>2, <1>3, <1>12, Zenon DEF Actions
    <2>3. (st.phase \in {"Idle", "Promoting"} /\ st.failed = None) => plan.primary = now
      BY <1>3, <1>7, <1>8, <1>12, Zenon
    <2>4. QED
      BY <1>3, <1>11, <1>12, <2>1, <2>2, <2>3, Zenon
  <1>13. CASE /\ ~base.running /\ base.primary = now
              /\ lastGood # now /\ plan.primary = lastGood /\ plan.running = FALSE
              /\ plan.st = [base.st EXCEPT !.failed = now]
    <2>1. /\ plan.st.failed = now /\ plan.st.phase = base.st.phase
          /\ plan.st.revision = base.st.revision
      BY <1>3, <1>13, Zenon DEF StatusType
    <2>2. action \in {"None", "Promote", "Rollback"}
      BY <1>2, <1>3, <1>10, <1>13, Zenon DEF Actions
    <2>3. /\ base.st.revision \in {None, now} /\ base.st.phase \notin Active
          /\ base.st.phase \in {"Promoting", "RollingBack"} => base.st.revision = now
      BY <1>3, <1>6, <1>9, <2>2, Zenon DEF Active
    <2>4. (st.phase \in {"Idle", "Promoting"} /\ st.failed = None) => plan.primary = now
      BY <1>7, <1>8, <1>13, Zenon
    <2>5. QED
      BY <1>5, <1>13, <2>1, <2>3, <2>4, Zenon
  <1>14. QED
    BY <1>4, <1>12, <1>13, Zenon

LEMMA SettledStays ==
  ASSUME NEW now \in Revisions, Settled(now),
         UNCHANGED <<spec, st, lastGood, stable, primary, canary, store, cache>>
  PROVE  Settled(now)'
  BY Zenon DEF Settled, RunsLive

(* A pass that gives up has nothing to publish but the phase.              *)
LEMMA GivingUpStaysSettled ==
  ASSUME TypeInv, NEW now \in Revisions, Settled(now), NEW plan \in Plans(now), GaveUp,
         specForRevision(plan.primary, now) = Unrendered,
         st.phase \in Active => canary # None,
         UNCHANGED <<spec, store, cache>>
  PROVE  Settled(now)'
  <1>1. st' = [st EXCEPT !.phase = "Idle"] /\ UNCHANGED <<lastGood, stable, primary, canary>>
    BY Zenon DEF GaveUp
  <1>2. /\ st'.phase = "Idle" /\ st'.failed = st.failed /\ st'.revision = st.revision
        /\ st.phase \in {"Canarying", "Paused", "Promoting", "Idle", "RollingBack"}
    BY <1>1, Zenon DEF TypeInv, StatusType, Phases, Active
  <1>3. st.phase \notin Active
    <2>1. SUFFICES ASSUME st.phase \in Active PROVE FALSE
      BY Zenon
    <2>2. plan.primary \in {now, lastGood}
      BY PlanMeans, Zenon
    <2>3. primary.rev = lastGood
      BY <2>1, Zenon DEF Settled
    <2>4. specForRevision(plan.primary, now) \in Pods
      BY <2>2, <2>3, QuietRender, Zenon
    <2>5. QED
      BY <2>4, UnrenderedIsNoPod, Zenon
  <1>4. st'.failed = None => primary.rev = now /\ stable = now
    <2>1. st.phase = "RollingBack" => st.failed = now
      BY Zenon DEF Settled
    <2>2. (st.phase \in {"Idle", "Promoting"} /\ st.failed = None) => primary.rev = now /\ stable = now
      BY Zenon DEF Settled
    <2>3. now # None
      BY MigrationAssumption, Zenon
    <2>4. QED
      BY <1>2, <1>3, <2>1, <2>2, <2>3, Zenon DEF Active
  <1>5. QED
    BY <1>1, <1>2, <1>4, Zenon DEF Settled, RunsLive, Active

LEMMA CarryingOutStaysSettled ==
  ASSUME TypeInv, NEW now \in Revisions, Settled(now), NEW plan \in Plans(now),
         Carried(now, plan), st.phase = "Promoting" => primary.rev = now,
         UNCHANGED <<spec, store, cache>>
  PROVE  Settled(now)'
  <1> DEFINE live == Pod(resolvedRevisionSpec(spec))
             p == specForRevision(plan.primary, now)
  <1>1. /\ p \in Pods /\ primary' = Deployed(plan.primary, p)
        /\ canary' = IF plan.running THEN Deployed(now, live) ELSE None
        /\ \/ /\ st' = plan.st /\ stable' = plan.primary
              /\ \/ lastGood' = lastGood
                 \/ lastGood' = plan.primary /\ ~plan.running
           \/ st' = st /\ stable' = stable /\ lastGood' = lastGood
    BY Zenon DEF Carried
  <1>2. /\ plan.primary \in {now, lastGood} /\ (plan.running => plan.primary = lastGood)
        /\ plan.st.revision \in {None, now} /\ plan.st.failed \in {None, now}
        /\ (plan.st.phase \in {"Idle", "Promoting"} /\ plan.st.failed = None) => plan.primary = now
        /\ plan.st.phase \in Active => plan.st.revision = now /\ plan.st.failed = None /\ plan.running
        /\ plan.st.phase \in {"Promoting", "RollingBack"} => plan.st.revision = now
        /\ plan.st.phase = "RollingBack" => plan.st.failed = now
        /\ (st.phase \in {"Idle", "Promoting"} /\ st.failed = None) => plan.primary = now
    BY <1>1, QuietPlan, Zenon
  <1>3. plan.primary = now => p = live
    BY Zenon DEF specForRevision
  <1>4. live' = live
    BY Zenon
  <1> HIDE DEF live, p
  <1>5. /\ primary'.rev = plan.primary /\ primary'.pod = p /\ primary' # None
        /\ canary' # None => plan.running /\ canary'.rev = now /\ canary'.pod = live
    <2>1. primary' \in Deployments
      BY <1>1, <1>2, Zenon DEF Deployed, Deployments, TypeInv, Settled
    <2>2. QED
      BY <1>1, <2>1, MigrationAssumption, Zenon DEF Deployed
  <1>6. lastGood' \in {now, lastGood} /\ primary'.rev \in {now, lastGood'} /\ lastGood' \in {lastGood, plan.primary}
    BY <1>1, <1>2, <1>5, Zenon
  <1>7. stable' \in {now, lastGood'}
    <2>1. stable \in {now, lastGood}
      BY Zenon DEF Settled
    <2>2. QED
      BY <1>1, <1>2, <2>1, Zenon
  <1>8. /\ st'.revision \in {None, now} /\ st'.failed \in {None, now}
        /\ (st'.phase \in {"Idle", "Promoting"} /\ st'.failed = None) =>
             primary'.rev = now /\ stable' = now
        /\ st'.phase \in Active => /\ st'.revision = now /\ st'.failed = None
                                   /\ canary' = None \/ primary'.rev = lastGood'
        /\ st'.phase \in {"Promoting", "RollingBack"} => st'.revision = now
        /\ st'.phase = "RollingBack" => st'.failed = now
    <2>1. canary' = None \/ primary'.rev = lastGood'
      BY <1>1, <1>2, <1>5, Zenon
    <2>2. CASE st' = plan.st /\ stable' = plan.primary
      BY <1>2, <1>5, <2>1, <2>2, Zenon
    <2>3. CASE st' = st /\ stable' = stable
      BY <1>2, <1>5, <2>1, <2>3, Zenon DEF Settled
    <2>4. QED
      BY <1>1, <2>2, <2>3, Zenon
  <1>9. /\ primary'.rev = now => RunsLive(primary)'
        /\ canary' # None => canary'.rev = now /\ RunsLive(canary)'
    <2>1. RunsLive(primary)' = (primary'.pod \in {live', [live' EXCEPT !.scoped = FALSE]})
      BY Zenon DEF RunsLive, live
    <2>2. RunsLive(canary)' = (canary'.pod \in {live', [live' EXCEPT !.scoped = FALSE]})
      BY Zenon DEF RunsLive, live
    <2>3. QED
      BY <1>3, <1>4, <1>5, <2>1, <2>2, Zenon
  <1>10. /\ cache' = store' /\ {now, lastGood'} \subseteq DOMAIN store'
         /\ now.v = "legacy" /\ lastGood'.v = "legacy" /\ legacyRecordedWorkloadEqual(spec', now)
    <2>1. /\ cache = store /\ {now, lastGood} \subseteq DOMAIN store
          /\ now.v = "legacy" /\ lastGood.v = "legacy" /\ legacyRecordedWorkloadEqual(spec, now)
      BY Zenon DEF Settled
    <2>2. QED
      BY <1>6, <2>1, Zenon
  <1>11. QED
    BY <1>5, <1>6, <1>7, <1>8, <1>9, <1>10, Zenon DEF Settled

LEMMA ReconcileStaysSettled ==
  ASSUME TypeInv, NEW now \in Revisions, Settled(now), Reconcile
  PROVE  Settled(now)'
  <1>1. (Away \/ \E target, plan : Took(target, plan)) /\ UNCHANGED <<spec, rolling, cache>>
    BY ReconcileMeans, Zenon
  <1>2. CASE Away
    BY <1>1, <1>2, SettledStays, Zenon DEF Away, Serving
  <1>3. ASSUME NEW target, NEW plan, Took(target, plan) PROVE Settled(now)'
    <2>1. /\ target = Target.id /\ Target.kind # "refuse" /\ plan \in Plans(target)
          /\ IF Target.adopted THEN UNCHANGED store ELSE Record(target).ok /\ recordRevision(target)
          /\ \/ GaveUp /\ specForRevision(plan.primary, target) = Unrendered
             \/ Carried(target, plan)
      BY <1>3, Zenon DEF Took
    <2>2. /\ target = now /\ UNCHANGED store
          /\ st.phase \in Active => canary # None
          /\ st.phase = "Promoting" => primary.rev = now
      BY <2>1, QuietTarget, Zenon
    <2>3. QED
      BY <1>1, <2>1, <2>2, GivingUpStaysSettled, CarryingOutStaysSettled, Zenon
  <1>4. QED
    BY <1>1, <1>2, <1>3, Zenon

(* A new port is not a new workload.                                       *)
LEMMA EditStaysSettled ==
  ASSUME TypeInv, NEW now \in Revisions, Settled(now), NEW s \in Specs, Edit(s), ~hist'.touched
  PROVE  Settled(now)'
  <1>1. /\ spec' = s /\ UNCHANGED <<st, lastGood, stable, primary, canary, store, cache>>
        /\ hist' = [hist EXCEPT !.touched = @ \/ [s EXCEPT !.port = spec.port] # spec]
    BY Zenon DEF Edit, Serving
  <1>2. [s EXCEPT !.port = spec.port] = spec
    <2> DEFINE b == hist.touched \/ [s EXCEPT !.port = spec.port] # spec
    <2>1. hist' = [hist EXCEPT !.touched = b] /\ b \in BOOLEAN
      BY <1>1, Zenon
    <2>2. hist \in [touched : BOOLEAN, tampered : BOOLEAN, unpinned : BOOLEAN]
      BY Zenon DEF TypeInv
    <2> HIDE DEF b
    <2>3. ~b
      BY <2>1, <2>2, Zenon
    <2>4. QED
      BY <2>3, Zenon DEF b
  <1>3. /\ s.model = spec.model /\ s.image = spec.image /\ s.timeout = spec.timeout
        /\ s.shim = spec.shim
    BY <1>2, Zenon DEF TypeInv, Specs
  <1> DEFINE q == resolvedRevisionSpec(s)
             r == resolvedRevisionSpec(spec)
  <1>4. q.model = r.model /\ q.shim = r.shim /\ q.image = r.image /\ q.timeout = r.timeout
    <2>1. /\ q.model = s.model /\ q.shim = s.shim
          /\ q.image = (IF s.image = Unset THEN DefaultImage ELSE s.image)
          /\ q.timeout = (IF s.timeout = Unset THEN DefaultTimeout ELSE s.timeout)
      BY ResolvedMeans, Zenon
    <2>2. spec \in Specs
      BY Zenon DEF TypeInv
    <2>3. /\ r.model = spec.model /\ r.shim = spec.shim
          /\ r.image = (IF spec.image = Unset THEN DefaultImage ELSE spec.image)
          /\ r.timeout = (IF spec.timeout = Unset THEN DefaultTimeout ELSE spec.timeout)
      BY <2>2, ResolvedMeans, Zenon
    <2> HIDE DEF q, r
    <2>4. QED
      BY <1>3, <2>1, <2>3, Zenon
  <1>5. Pod(resolvedRevisionSpec(spec')) = Pod(resolvedRevisionSpec(spec))
    <2> HIDE DEF q, r
    <2>1. Pod(q) = Pod(r)
      BY <1>4, Zenon DEF Pod
    <2>2. QED
      BY <1>1, <2>1, Zenon DEF q, r
  <1>6. legacyRecordedWorkloadEqual(spec, now) => legacyRecordedWorkloadEqual(spec', now)
    BY <1>1, <1>3, Zenon DEF legacyRecordedWorkloadEqual
  <1>7. (RunsLive(primary) => RunsLive(primary)') /\ (RunsLive(canary) => RunsLive(canary)')
    BY <1>1, <1>5, Zenon DEF RunsLive
  <1>8. QED
    BY <1>1, <1>6, <1>7, Zenon DEF Settled

(* Whatever a controller with the same defaults left.                      *)
LEMMA LeftSettled ==
  ASSUME spec \in Specs, NEW phase, NEW before \in Specs,
         NEW scoped \in BOOLEAN, Left(phase, before, DefaultImage, scoped),
         phase \in {"steady", "Canarying", "Paused", "Promoting", "RollingBack", "rejected"},
         cache = store,
         DOMAIN store = IF phase = "steady" THEN {Legacy(spec)} ELSE {Legacy(before), Legacy(spec)},
         DefaultImage \in OldImages, before.model # spec.model
  PROVE  Settled(Legacy(spec))
  <1> DEFINE now  == Legacy(spec)
             good == Legacy(before)
             old  == Deployed(good, OldPod(before, DefaultImage, scoped))
             new  == Deployed(now, OldPod(spec, DefaultImage, scoped))
             live == Pod(resolvedRevisionSpec(spec))
  <1>1. now \in Revisions /\ good \in Revisions /\ old \in Deployments /\ new \in Deployments
    BY LeftTyped, Zenon
  <1>2. /\ now.v = "legacy" /\ good.v = "legacy" /\ legacyRecordedWorkloadEqual(spec, now)
        /\ old.rev = good /\ new.rev = now
    BY Zenon DEF Legacy, legacyRecordedWorkloadEqual, Deployed
  <1>3. new.pod \in {live, [live EXCEPT !.scoped = FALSE]}
    <2> DEFINE r == resolvedRevisionSpec(spec)
               n == startupFailureThreshold(r.timeout)
               b == spec.shim /\ scoped
    <2>1. /\ r.model = spec.model /\ r.shim = spec.shim /\ spec.shim \in BOOLEAN
          /\ r.image = (IF spec.image = Unset THEN DefaultImage ELSE spec.image)
          /\ r.timeout = (IF spec.timeout = Unset THEN DefaultTimeout ELSE spec.timeout)
      BY ResolvedMeans, Zenon
    <2>2. new.pod = OldPod(spec, DefaultImage, scoped)
      BY Zenon DEF Deployed
    <2> HIDE DEF new
    <2>3. new.pod = [model |-> spec.model, image |-> r.image, shim |-> spec.shim,
                     threshold |-> n, scoped |-> b]
      <3>1. n = startupFailureThreshold(IF spec.timeout = Unset THEN DefaultTimeout ELSE spec.timeout)
        BY <2>1, Zenon
      <3> HIDE DEF r, n, b
      <3>2. QED
        BY <2>1, <2>2, <3>1, Zenon DEF OldPod, b
    <2>4. live = [model |-> spec.model, image |-> r.image, shim |-> spec.shim,
                  threshold |-> n, scoped |-> spec.shim]
      <3> HIDE DEF r
      <3>1. live = Pod(r)
        BY Zenon DEF r
      <3>2. QED
        BY <2>1, <3>1, Zenon DEF Pod
    <2>5. b \in {spec.shim, FALSE}
      BY <2>1, Zenon
    <2> HIDE DEF r, n, b, live
    <2>6. [live EXCEPT !.scoped = FALSE] =
            [model |-> spec.model, image |-> r.image, shim |-> spec.shim,
             threshold |-> n, scoped |-> FALSE]
      <3>1. ASSUME NEW f
            PROVE  [live EXCEPT !.scoped = f]
                     = [model |-> spec.model, image |-> r.image, shim |-> spec.shim,
                        threshold |-> n, scoped |-> f]
        BY <2>4
      <3>2. QED
        BY <3>1, Zenon
    <2>7. QED
      BY <2>3, <2>4, <2>5, <2>6, Zenon
  <1>4. RunsLive(new) /\ old # None /\ new # None /\ now # None
    BY <1>1, <1>3, MigrationAssumption, Zenon DEF RunsLive
  <1>5. ASSUME NEW p, NEW rev, NEW failed, NEW g
        PROVE  /\ Status(p, rev, failed, g).phase = p
               /\ Status(p, rev, failed, g).revision = rev
               /\ Status(p, rev, failed, g).failed = failed
    BY Zenon DEF Status
  <1>6. CASE phase = "steady"
    <2>1. /\ st = Status("Idle", None, None, now) /\ lastGood = now /\ stable = now
          /\ primary = new /\ canary = None
      BY <1>6, Zenon DEF Left, Active
    <2>2. st.phase = "Idle" /\ st.revision = None /\ st.failed = None /\ now \in DOMAIN store
      BY <1>5, <1>6, <2>1
    <2> HIDE DEF now, new
    <2>3. Settled(now)
      BY <1>2, <1>4, <2>1, <2>2, Zenon DEF Settled, Active
    <2>4. QED
      BY <2>3, Zenon DEF now
  <1>7. good # now
    BY Zenon DEF Legacy
  <1>8. CASE phase \in Active
    <2>1. /\ st = Status(phase, now, None, good) /\ lastGood = good /\ stable = good
          /\ primary = old /\ canary = new
      BY <1>8, Zenon DEF Left, Active
    <2>2. /\ st.phase = phase /\ st.revision = now /\ st.failed = None
          /\ now \in DOMAIN store /\ good \in DOMAIN store
      BY <1>5, <1>8, <2>1 DEF Active
    <2> HIDE DEF now, good, old, new
    <2>3. Settled(now)
      BY <1>2, <1>4, <1>7, <1>8, <2>1, <2>2, Zenon DEF Settled, Active
    <2>4. QED
      BY <2>3, Zenon DEF now
  <1>9. CASE phase = "Promoting"
    <2>1. /\ st = Status(phase, now, None, good) /\ lastGood = good /\ stable = now
          /\ primary = new /\ canary = None
      BY <1>9, Zenon DEF Left, Active
    <2>2. /\ st.phase = "Promoting" /\ st.revision = now /\ st.failed = None
          /\ now \in DOMAIN store /\ good \in DOMAIN store
      BY <1>5, <1>9, <2>1
    <2> HIDE DEF now, good, old, new
    <2>3. Settled(now)
      BY <1>2, <1>4, <1>7, <1>9, <2>1, <2>2, Zenon DEF Settled, Active
    <2>4. QED
      BY <2>3, Zenon DEF now
  <1>10. CASE phase = "RollingBack"
    <2>1. /\ st = Status(phase, now, now, good) /\ lastGood = good /\ stable = good
          /\ primary = old /\ canary = None
      BY <1>10, Zenon DEF Left, Active
    <2>2. /\ st.phase = "RollingBack" /\ st.revision = now /\ st.failed = now
          /\ now \in DOMAIN store /\ good \in DOMAIN store
      BY <1>5, <1>10, <2>1
    <2> HIDE DEF now, good, old, new
    <2>3. Settled(now)
      BY <1>2, <1>4, <1>7, <1>10, <2>1, <2>2, Zenon DEF Settled, Active
    <2>4. QED
      BY <2>3, Zenon DEF now
  <1>11. CASE phase = "rejected"
    <2>1. /\ st = Status("Idle", None, now, good) /\ lastGood = good /\ stable = good
          /\ primary = old /\ canary = None
      BY <1>11, Zenon DEF Left, Active
    <2>2. /\ st.phase = "Idle" /\ st.revision = None /\ st.failed = now
          /\ now \in DOMAIN store /\ good \in DOMAIN store
      BY <1>5, <1>11, <2>1
    <2> HIDE DEF now, good, old, new
    <2>3. Settled(now)
      BY <1>2, <1>4, <1>7, <1>11, <2>1, <2>2, Zenon DEF Settled, Active
    <2>4. QED
      BY <2>3, Zenon DEF now
  <1>12. QED
    BY <1>6, <1>8, <1>9, <1>10, <1>11, Zenon DEF Active

LEMMA InitQInv == Init => QInv
  <1> SUFFICES ASSUME Init, ~hist.touched PROVE \E now \in Revisions : Settled(now)
    BY Zenon DEF QInv
  <1>1. PICK phase \in {"fresh", "steady", "Canarying", "Paused", "Promoting", "RollingBack",
                        "rejected"},
             before \in { s \in Specs : s.model # spec.model
                                          /\ [s EXCEPT !.model = spec.model] = spec },
             image \in OldImages, scoped \in BOOLEAN :
          /\ rolling => phase \in {"fresh", "steady", "rejected"}
          /\ Left(phase, before, image, scoped)
          /\ store = [id \in (IF phase = "fresh" THEN {}
                              ELSE IF phase = "steady" THEN {Legacy(spec)}
                              ELSE {Legacy(before), Legacy(spec)})
                        |-> IF id = Legacy(spec) THEN 2 ELSE 1]
          /\ hist = [touched |-> phase = "fresh" \/ image # DefaultImage, tampered |-> FALSE,
                     unpinned |-> FALSE]
    BY Zenon DEF Init
  <1>2. phase # "fresh" /\ image = DefaultImage
    <2> DEFINE b == phase = "fresh" \/ image # DefaultImage
    <2>1. b \in BOOLEAN
      BY Zenon
    <2> HIDE DEF b
    <2>2. hist = [touched |-> b, tampered |-> FALSE, unpinned |-> FALSE]
      BY <1>1, Zenon DEF b
    <2>3. ~b
      BY <2>1, <2>2, Zenon
    <2>4. QED
      BY <2>3, Zenon DEF b
  <1>3. spec \in Specs /\ cache = store /\ before \in Specs /\ before.model # spec.model
    BY Zenon DEF Init
  <1>4. DOMAIN store = IF phase = "steady" THEN {Legacy(spec)} ELSE {Legacy(before), Legacy(spec)}
    BY <1>1, <1>2, Zenon
  <1>5. /\ phase \in {"steady", "Canarying", "Paused", "Promoting", "RollingBack", "rejected"}
        /\ Left(phase, before, DefaultImage, scoped) /\ DefaultImage \in OldImages
    BY <1>1, <1>2, Zenon
  <1>6. Settled(Legacy(spec))
    BY <1>3, <1>4, <1>5, LeftSettled, Zenon
  <1>7. Legacy(spec) \in Revisions
    BY <1>3, LeftTyped, Zenon
  <1>8. QED
    BY <1>6, <1>7, Zenon

LEMMA NextQInv == TypeInv /\ QInv /\ [Next]_mvars => QInv'
  <1> SUFFICES ASSUME TypeInv, QInv, [Next]_mvars, ~hist'.touched, ~hist'.tampered
               PROVE  \E now \in Revisions : Settled(now)'
    BY Zenon DEF QInv
  <1>1. /\ ~hist.touched /\ ~hist.tampered /\ ~Tamper
    <2>1. hist \in [touched : BOOLEAN, tampered : BOOLEAN, unpinned : BOOLEAN]
      BY Zenon DEF TypeInv
    <2>2. CASE Reconcile
      <3>1. hist'.touched = hist.touched /\ hist'.tampered = hist.tampered
        BY <2>2, ReconcileMeans, HistoryMoves, Zenon
      <3>2. ~Tamper
        BY <2>1, Zenon DEF Tamper
      <3>3. QED
        BY <3>1, <3>2, Zenon
    <2>3. ASSUME NEW s \in Specs, Edit(s) PROVE ~hist.touched /\ ~hist.tampered /\ ~Tamper
      <3> DEFINE b == hist.touched \/ [s EXCEPT !.port = spec.port] # spec
      <3>1. hist' = [hist EXCEPT !.touched = b] /\ b \in BOOLEAN
        BY <2>3, Zenon DEF Edit
      <3>2. hist.touched => b
        BY Zenon
      <3> HIDE DEF b
      <3>3. hist'.tampered = hist.tampered /\ hist'.touched = b
        BY <2>1, <3>1, Zenon
      <3>4. ~Tamper
        BY <2>1, Zenon DEF Tamper
      <3>5. QED
        BY <3>2, <3>3, <3>4, Zenon
    <2>4. CASE Annotate \/ Converge \/ CacheCatchesUp \/ UNCHANGED mvars
      <3>1. hist' = hist
        BY <2>4, Zenon DEF Annotate, Converge, CacheCatchesUp, mvars
      <3>2. ~Tamper
        BY <2>1, Zenon DEF Tamper
      <3>3. QED
        BY <3>1, <3>2, Zenon
    <2>5. CASE Tamper
      BY <2>1, <2>5, Zenon DEF Tamper
    <2>6. QED
      BY <2>2, <2>3, <2>4, <2>5, Zenon DEF Next
  <1>2. PICK now \in Revisions : Settled(now)
    BY <1>1, Zenon DEF QInv
  <1>3. Settled(now)'
    <2>1. CASE Reconcile
      BY <1>2, <2>1, ReconcileStaysSettled, Zenon
    <2>2. ASSUME NEW s \in Specs, Edit(s) PROVE Settled(now)'
      BY <1>2, <2>2, EditStaysSettled, Zenon
    <2>3. CASE Annotate \/ Converge \/ UNCHANGED mvars
      <3>1. UNCHANGED <<spec, st, lastGood, stable, primary, canary, store, cache>>
        BY <2>3, Zenon DEF Annotate, Converge, mvars
      <3>2. QED
        BY <1>2, <3>1, SettledStays, Zenon
    <2>4. CASE CacheCatchesUp
      BY <1>2, <2>4, Zenon DEF CacheCatchesUp, Settled
    <2>5. QED
      BY <1>1, <2>1, <2>2, <2>3, <2>4, Zenon DEF Next
  <1>4. QED
    BY <1>3, Zenon

(* Replacing the controller starts no release: whatever phase the old one  *)
(* left, whichever status writes are lost since and whoever annotates,     *)
(* every identity stays the one of the old format until somebody changes   *)
(* the workload (revision_snapshot.go, targetRevisionForMigration).        *)
THEOREM UpgradeIsNeverARelease == Spec => []UpgradeIsNotARelease
  <1>1. TypeInv /\ QInv => UpgradeIsNotARelease
    <2> SUFFICES ASSUME TypeInv, QInv, ~hist.touched, ~hist.tampered,
                        NEW id \in {st.revision, st.failed, lastGood, stable}
                                     \cup { d.rev : d \in {primary, canary} \ {None} },
                        id # None
                 PROVE  id.v = "legacy"
      BY Zenon DEF UpgradeIsNotARelease
    <2>1. PICK now \in Revisions : Settled(now)
      BY Zenon DEF QInv
    <2>2. /\ now.v = "legacy" /\ lastGood.v = "legacy" /\ stable \in {now, lastGood}
          /\ primary # None => primary.rev \in {now, lastGood}
          /\ canary # None => canary.rev = now
          /\ st.revision \in {None, now} /\ st.failed \in {None, now}
      BY <2>1, Zenon DEF Settled
    <2>3. id \in {None, now, lastGood}
      BY <2>2, Zenon
    <2>4. QED
      BY <2>2, <2>3, Zenon
  <1>2. RInv => TypeInv
    BY Zenon DEF RInv
  <1>3. Spec => [](TypeInv /\ QInv)
    BY <1>2, AlwaysRInv, InitQInv, NextQInv, PTL DEF Spec
  <1>4. QED
    BY <1>1, <1>3, PTL

-----------------------------------------------------------------------------
(* Labels. *)

IsLegacy(id) == id # None /\ id.v = "legacy"

(* The pods of a Deployment fit its label.                                 *)
Fits(d) ==
  IF d.rev.v = "v2" THEN d.pod = Pod(d.rev)
  ELSE d.pod.model = d.rev.model /\ d.pod.shim = d.rev.shim /\ d.pod.threshold >= 1

(* What the status says of identities of the old format.                  *)
StatusFits(s, good) ==
  /\ IsLegacy(s.failed) => good \notin {None, s.failed}
  /\ s.phase \in Active => s.revision # None
  /\ IsLegacy(s.revision) =>
       /\ s.phase = "RollingBack" => s.failed = s.revision
       /\ s.phase \in Active => IsLegacy(good) /\ good # s.revision
       /\ s.phase = "Promoting" => IsLegacy(good)

(* What lets a pass tell by the label whether the pods may change.  An     *)
(* identity of the old format does not fix all of its workload, so two     *)
(* variants never run under the same one, a rejected one is never the last *)
(* good one, and it is on its way to the primary only from a last good     *)
(* revision of the old format, which is rendered from the primary alone.   *)
LInv ==
  /\ primary # None => Fits(primary) /\ (IsLegacy(primary.rev) => IsLegacy(lastGood))
  /\ canary # None => Fits(canary)
  /\ (primary # None /\ canary # None /\ IsLegacy(canary.rev)) => canary.rev # primary.rev
  /\ StatusFits(st, lastGood)

(* A whole number of periods is that number of probes.                     *)
LEMMA ThresholdOfPeriods ==
  ASSUME NEW t \in Int, t >= 1
  PROVE  startupFailureThreshold(Period * t) = t
  <1> DEFINE a == (Period * t + Period - 1) \div Period
  <1>1. Period \in Int /\ Period > 0
    BY MigrationAssumption
  <1>2. a = t
    <2> DEFINE m == Period * t
    <2>1. m \in Int /\ Period * (t + 1) = m + Period
      BY <1>1
    <2>2. \A q \in Int : (Period * q <= m + Period - 1 /\ m + Period - 1 < Period * (q + 1))
                           => q = t
      <3> SUFFICES ASSUME NEW q \in Int, Period * q <= m + Period - 1,
                          m + Period - 1 < Period * (q + 1)
                   PROVE  q = t
        OBVIOUS
      <3>1. Period * q < Period * (t + 1) /\ Period * t < Period * (q + 1)
        BY <1>1, <2>1
      <3>2. q < t + 1 /\ t < q + 1
        BY <1>1, <3>1
      <3>3. QED
        BY <3>2
    <2>3. a \in Int /\ Period * a <= m + Period - 1 /\ m + Period - 1 < Period * (a + 1)
      BY <1>1, <2>1
    <2>4. QED
      BY <2>2, <2>3
  <1>3. Max({a, 1}) = t
    <2> HIDE DEF a
    <2>1. t \in {a, 1} /\ \A y \in {a, 1} : t >= y
      BY <1>2
    <2>2. \A x \in {a, 1} : (\A y \in {a, 1} : x >= y) => x = t
      BY <1>2, <2>1
    <2>3. Max({a, 1}) = CHOOSE x \in {a, 1} : \A y \in {a, 1} : x >= y
      BY Zenon DEF Max
    <2>4. QED
      BY <2>1, <2>2, <2>3, Zenon
  <1>4. QED
    BY <1>3, Zenon DEF startupFailureThreshold

LEMMA ThresholdIsPositive ==
  ASSUME NEW t \in Int
  PROVE  startupFailureThreshold(t) >= 1
  <1> DEFINE a == (t + Period - 1) \div Period
  <1>1. Period \in Int /\ Period > 0
    BY MigrationAssumption
  <1>2. t + Period - 1 \in Int
    BY <1>1
  <1>3. a \in Int
    BY <1>1, <1>2
  <1> HIDE DEF a
  <1>4. \E x \in {a, 1} : \A y \in {a, 1} : x >= y
    BY <1>3
  <1>5. \A y \in {a, 1} : Max({a, 1}) >= y
    BY <1>4, Zenon DEF Max
  <1>6. startupFailureThreshold(t) = Max({a, 1})
    BY Zenon DEF startupFailureThreshold, a
  <1>7. QED
    BY <1>5, <1>6, Zenon

(* A target of the old format is one that the status or the primary names, *)
(* and what runs under it, where something should, is the live workload.   *)
Adopted(t) ==
  \/ /\ st.phase \in Active /\ st.revision = t
     /\ canary # None /\ canary.rev = t /\ RunsLive(canary)
  \/ /\ st.phase = "Promoting" /\ st.revision = t
     /\ primary # None /\ primary.rev = t /\ RunsLive(primary)
  \/ st.phase = "RollingBack" /\ st.revision = t
  \/ (st.revision = None \/ st.phase = "Idle") /\ st.failed = t
  \/ /\ st.revision = None \/ st.phase = "Idle"
     /\ primary # None /\ primary.rev = t /\ RunsLive(primary)

LEMMA AdoptedMeans ==
  ASSUME TypeInv, Target.kind # "refuse", Target.id # Live
  PROVE  /\ IsLegacy(Target.id) /\ legacyRecordedWorkloadEqual(spec, Target.id)
         /\ Adopted(Target.id)
  <1> DEFINE ref == legacyReferenceFrom
             how == currentWorkloadMatchesDeployment(ref.dep)
  <1>1. Target =
          IF ref.rev \in {None, Live} THEN Use(Live, FALSE)
          ELSE IF ref.rev \notin DOMAIN cache THEN Refuse
          ELSE IF ref.rev.v = "v2" \/ ~legacyRecordedWorkloadEqual(spec, ref.rev)
          THEN Use(Live, FALSE)
          ELSE IF ref.noRender
          THEN (IF startupTimeoutMatchesDeployment THEN Use(ref.rev, TRUE) ELSE Refuse)
          ELSE IF ref.dep = None THEN Refuse
          ELSE IF ref.dep.rev # ref.rev THEN Refuse
          ELSE CASE how = "different" -> Use(Live, FALSE)
                 [] how = "exact"     -> Use(ref.rev, TRUE)
                 [] how = "telemetry" ->
                      IF st.phase \in Active \cup {"Promoting"} THEN Hold(ref.rev)
                      ELSE Use(ref.rev, TRUE)
    BY Zenon DEF Target, targetRevisionForMigration
  <1>2. how \in {"exact", "telemetry", "different"}
    BY Zenon DEF currentWorkloadMatchesDeployment
  <1>3. how # "different" => RunsLive(ref.dep)
    BY Zenon DEF currentWorkloadMatchesDeployment, RunsLive
  <1>4. Target # Use(Live, FALSE) /\ Target # Refuse
    BY DEF Use, Refuse
  <1>5. ref.rev \in Revisions \cup {None}
    BY ReferenceTyped
  <1>6. /\ st.revision # None /\ st.phase \in Active => ref = Reference(st.revision, canary, FALSE)
        /\ st.revision # None /\ st.phase = "Promoting"
             => ref = Reference(st.revision, primary, FALSE)
        /\ st.revision # None /\ st.phase = "RollingBack"
             => ref = Reference(st.revision, None, TRUE)
        /\ st.revision = None \/ st.phase \notin Active \cup {"Promoting", "RollingBack"} =>
             \/ ref = Reference(st.failed, None, TRUE)
             \/ ref = Reference(primary.rev, primary, FALSE)
             \/ ref = Reference(None, None, FALSE)
    BY Zenon DEF legacyReferenceFrom, Active
  <1>7. st.phase \in Active \cup {"Promoting", "RollingBack", "Idle"}
    BY DEF TypeInv, StatusType, Phases
  <1> HIDE DEF ref, how
  <1>8. /\ ref.rev \notin {None, Live} /\ ref.rev.v # "v2"
        /\ legacyRecordedWorkloadEqual(spec, ref.rev)
        /\ ref.noRender \/ (ref.dep # None /\ ref.dep.rev = ref.rev /\ how # "different")
    BY <1>1, <1>2, <1>4, Zenon
  <1>9. Target \in {Use(ref.rev, TRUE), Hold(ref.rev)}
    <2>1. CASE ref.noRender
      BY <1>1, <1>4, <1>8, <2>1, Zenon
    <2>2. CASE ~ref.noRender /\ how = "exact"
      BY <1>1, <1>4, <1>8, <2>2, Zenon
    <2>3. CASE ~ref.noRender /\ how = "telemetry"
      BY <1>1, <1>4, <1>8, <2>3, Zenon
    <2>4. QED
      BY <1>2, <1>8, <2>1, <2>2, <2>3, Zenon
  <1>10. Target.id = ref.rev
    BY <1>9 DEF Use, Hold
  <1>11. IsLegacy(ref.rev)
    BY <1>5, <1>8 DEF Revisions, IsLegacy
  <1>12. ref.noRender \/ (ref.dep # None /\ ref.dep.rev = ref.rev /\ RunsLive(ref.dep))
    BY <1>3, <1>8, Zenon
  <1>13. ASSUME NEW rev, NEW dep, NEW no, ref = Reference(rev, dep, no)
         PROVE  ref.rev = rev /\ ref.dep = dep /\ ref.noRender = no
    BY <1>13 DEF Reference
  <1>14. Adopted(ref.rev)
    <2>1. CASE st.revision # None /\ st.phase \in Active
      <3>1. ref.rev = st.revision /\ ref.dep = canary /\ ref.noRender = FALSE
        BY <1>6, <1>13, <2>1, Zenon
      <3>2. QED
        BY <1>12, <2>1, <3>1, Zenon DEF Adopted
    <2>2. CASE st.revision # None /\ st.phase = "Promoting"
      <3>1. ref.rev = st.revision /\ ref.dep = primary /\ ref.noRender = FALSE
        BY <1>6, <1>13, <2>2, Zenon
      <3>2. QED
        BY <1>12, <2>2, <3>1, Zenon DEF Adopted
    <2>3. CASE st.revision # None /\ st.phase = "RollingBack"
      <3>1. ref.rev = st.revision
        BY <1>6, <1>13, <2>3, Zenon
      <3>2. QED
        BY <2>3, <3>1, Zenon DEF Adopted
    <2>4. CASE st.revision = None \/ st.phase = "Idle"
      <3>1. \/ ref = Reference(st.failed, None, TRUE)
            \/ ref = Reference(primary.rev, primary, FALSE)
            \/ ref = Reference(None, None, FALSE)
        BY <1>6, <2>4 DEF Active
      <3>2. CASE ref = Reference(st.failed, None, TRUE)
        <4>1. ref.rev = st.failed
          BY <1>13, <3>2, Zenon
        <4>2. QED
          BY <2>4, <4>1, Zenon DEF Adopted
      <3>3. CASE ref = Reference(primary.rev, primary, FALSE)
        <4>1. ref.rev = primary.rev /\ ref.dep = primary /\ ref.noRender = FALSE
          BY <1>13, <3>3, Zenon
        <4>2. QED
          BY <1>12, <2>4, <4>1, Zenon DEF Adopted
      <3>4. CASE ref = Reference(None, None, FALSE)
        <4>1. ref.rev = None
          BY <1>13, <3>4, Zenon
        <4>2. QED
          BY <1>8, <4>1, Zenon
      <3>5. QED
        BY <3>1, <3>2, <3>3, <3>4, Zenon
    <2>5. QED
      BY <1>7, <2>1, <2>2, <2>3, <2>4, Zenon
  <1>15. QED
    BY <1>8, <1>10, <1>11, <1>14, Zenon

(* From which phase each verdict is reached.                               *)
LEMMA VerdictsFrom ==
  ASSUME TypeInv, NEW target \in Revisions, NEW action \in Verdicts(target)
  PROVE  /\ action = "Rollback" => st.phase \in Active
         /\ action \in {"Wait", "Pause"} => st.phase \in Active /\ st.revision = target
         /\ action = "Promote" => st.phase \in Active \cup {"Promoting"} /\ st.revision = target
         /\ action = "Start" =>
              IF st.phase \in Active THEN st.revision # target
              ELSE /\ target \notin {st.failed, lastGood}
                   /\ st.phase = "Promoting" => st.revision # target
  <1>1. st.phase \in {"Canarying", "Paused", "Promoting", "Idle", "RollingBack"}
    BY DEF TypeInv, StatusType, Phases, Active
  <1>2. /\ Begin(target) \subseteq {"None", "Start"}
        /\ "Start" \in Begin(target) => target \notin {st.failed, lastGood}
    BY DEF Begin
  <1>3. CASE rolling
    <2>1. action = "None"
      BY <1>3, Zenon DEF Verdicts
    <2>2. QED
      BY <2>1
  <1>4. CASE ~rolling /\ st.phase \in Active /\ abort
    <2>1. action = "Rollback"
      BY <1>4, Zenon DEF Verdicts
    <2>2. QED
      BY <1>4, <2>1
  <1>5. CASE ~rolling /\ st.phase \in Active /\ ~abort /\ st.revision # target
    <2>1. action = "Start"
      BY <1>5, Zenon DEF Verdicts
    <2>2. QED
      BY <1>5, <2>1
  <1>6. CASE ~rolling /\ st.phase \in Active /\ ~abort /\ st.revision = target
    <2>1. action \in {"Wait", "Pause", "Promote", "Rollback"}
      BY <1>6 DEF Verdicts, Active
    <2>2. QED
      BY <1>6, <2>1
  <1>7. CASE ~rolling /\ st.phase = "Promoting"
    <2>1. action \in (IF st.revision # target THEN Begin(target)
                      ELSE IF lastGood = st.revision THEN {"None"} ELSE {"Promote"})
      BY <1>7 DEF Verdicts, Active
    <2>2. QED
      BY <1>2, <1>7, <2>1 DEF Active
  <1>8. CASE ~rolling /\ st.phase \in {"Idle", "RollingBack"}
    <2>1. action \in Begin(target)
      BY <1>8 DEF Verdicts, Active
    <2>2. QED
      BY <1>2, <1>8, <2>1 DEF Active
  <1>9. QED
    BY <1>1, <1>3, <1>4, <1>5, <1>6, <1>7, <1>8, Zenon DEF Active

(* What is rendered under an identity, by its format.                      *)
LEMMA RenderedMeans ==
  ASSUME TypeInv, NEW target \in Revisions, NEW want \in Revisions,
         specForRevision(want, target) # Unrendered, want # target
  PROVE  /\ want.v = "v2" => specForRevision(want, target) = Pod(want)
         /\ want.v # "v2" =>
              /\ primary # None /\ primary.rev = want
              /\ specForRevision(want, target) =
                   Pod([model |-> want.model, shim |-> want.shim, image |-> primary.pod.image,
                        timeout |-> Period * primary.pod.threshold])
  <1>1. want \in DOMAIN cache
    BY Zenon DEF specForRevision
  <1>2. CASE want.v = "v2"
    BY <1>1, <1>2, Zenon DEF specForRevision
  <1>3. CASE want.v # "v2"
    BY <1>1, <1>3, Zenon DEF specForRevision
  <1>4. QED
    BY <1>2, <1>3

(* A pass for a target of the old format.  It starts no canary, keeps one  *)
(* that already runs the target, and gives the target to the primary only  *)
(* in place of what is there: a rejected one stays rejected.               *)
LEMMA LegacyCarried ==
  ASSUME TypeInv, LInv, NEW target, NEW plan, Took(target, plan), Carried(target, plan),
         target # Live
  PROVE  /\ IsLegacy(target) /\ legacyRecordedWorkloadEqual(spec, target)
         /\ plan.running =>
              /\ st.phase \in Active /\ st.revision = target
              /\ canary # None /\ canary.rev = target /\ RunsLive(canary)
         /\ plan.primary = target =>
              /\ IsLegacy(lastGood)
              /\ primary # None /\ primary.rev = target => RunsLive(primary)
  <1>1. /\ target \in Revisions /\ plan \in Plans(target)
        /\ IsLegacy(target) /\ legacyRecordedWorkloadEqual(spec, target) /\ Adopted(target)
    BY AdoptedMeans, Zenon DEF Took
  <1>2. PICK action \in Verdicts(target) :
          LET base == Planned(target, action)
          IN  \/ plan = base
              \/ /\ ~base.running /\ ~base.held /\ lastGood # None /\ base.primary = target
                 /\ lastGood # target /\ plan.primary = lastGood
                 /\ plan.held = TRUE /\ plan.running = FALSE
                 /\ plan.st = [base.st EXCEPT !.failed = target]
    BY <1>1, PlansMean, Zenon
  <1> DEFINE base == Planned(target, action)
  <1>3. action \in Actions
    BY VerdictsMean
  <1>4. /\ base.running = (action \in {"Start", "Wait", "Pause"}) /\ base.held \in BOOLEAN
        /\ base.primary \in {target, lastGood}
        /\ base.held => ~base.running /\ base.primary = lastGood
        /\ base.running => base.primary = lastGood /\ base.canary = target
        /\ action = "Rollback" => base.primary = lastGood
        /\ base.st \in StatusType
        /\ base.st.revision = (IF action = "None" THEN None
                               ELSE IF action = "Rollback" THEN st.revision ELSE target)
        /\ base.st.phase = (IF action \in {"Start", "Wait"} THEN "Canarying"
                            ELSE IF action = "Pause" THEN "Paused"
                            ELSE IF action = "Promote" THEN "Promoting"
                            ELSE IF action = "Rollback" THEN "RollingBack" ELSE "Idle")
        /\ base.st.failed = (IF action = "Rollback" THEN st.revision
                             ELSE IF rolling /\ st.failed # target THEN None ELSE st.failed)
        /\ base.held = (~base.running /\ base.st.failed = target
                          /\ lastGood \notin {None, target})
        /\ (~base.running /\ ~base.held /\ action # "Rollback") => base.primary = target
    BY <1>1, <1>3, PlannedMeans, Zenon
  <1>5. \/ plan = base
        \/ plan.running = FALSE /\ plan.primary = lastGood /\ lastGood # target
    BY <1>2, Zenon
  <1>6. /\ action = "Rollback" => st.phase \in Active
        /\ action \in {"Wait", "Pause"} => st.phase \in Active /\ st.revision = target
        /\ action = "Promote" => st.phase \in Active \cup {"Promoting"} /\ st.revision = target
        /\ action = "Start" =>
             IF st.phase \in Active THEN st.revision # target
             ELSE /\ target \notin {st.failed, lastGood}
                  /\ st.phase = "Promoting" => st.revision # target
    BY <1>1, VerdictsFrom, Zenon
  <1> HIDE DEF base
  <1>7. /\ IsLegacy(target) /\ target # None
        /\ primary # None /\ IsLegacy(primary.rev) => IsLegacy(lastGood)
        /\ IsLegacy(st.failed) => lastGood \notin {None, st.failed}
        /\ st.phase \in Active => st.revision # None
        /\ IsLegacy(st.revision) /\ st.phase = "RollingBack" => st.failed = st.revision
        /\ IsLegacy(st.revision) /\ st.phase \in Active \cup {"Promoting"} => IsLegacy(lastGood)
        /\ IsLegacy(st.revision) /\ st.phase \in Active => lastGood # st.revision
    BY <1>1, Zenon DEF LInv, StatusFits, IsLegacy
  <1>8. st.phase = "Idle" \/ st.phase = "Promoting" \/ st.phase = "RollingBack" => st.phase \notin Active
    BY DEF Active
  <1>9. CASE /\ st.phase \in Active /\ st.revision = target
             /\ canary # None /\ canary.rev = target /\ RunsLive(canary)
    <2>1. IsLegacy(lastGood)
      BY <1>7, <1>9, Zenon
    <2>2. primary # None => primary.rev # target
      BY <1>1, <1>9, Zenon DEF LInv
    <2>3. QED
      BY <1>1, <1>9, <2>1, <2>2, Zenon
  <1>10. CASE /\ st.phase = "Promoting" /\ st.revision = target
              /\ primary # None /\ primary.rev = target /\ RunsLive(primary)
    <2>1. IsLegacy(lastGood)
      BY <1>7, <1>10, Zenon
    <2>2. action \notin {"Start", "Wait", "Pause"}
      BY <1>6, <1>8, <1>10
    <2>3. ~plan.running
      BY <1>4, <1>5, <2>2, Zenon
    <2>4. QED
      BY <1>1, <1>10, <2>1, <2>3, Zenon
  <1>11. CASE st.failed = target /\ st.phase \notin Active /\ (st.phase = "Promoting" => st.revision = None)
    <2>1. action \notin {"Start", "Wait", "Pause", "Rollback"}
      BY <1>6, <1>11
    <2>2. base.st.failed = target
      BY <1>4, <1>11, <2>1
    <2>3. lastGood \notin {None, target}
      BY <1>7, <1>11, Zenon
    <2>4. ~base.running
      BY <1>4, <2>1, Zenon
    <2>5. base.primary = lastGood
      BY <1>4, <2>2, <2>3, <2>4, Zenon
    <2>6. plan.primary # target /\ ~plan.running
      BY <1>5, <2>3, <2>4, <2>5, Zenon
    <2>7. QED
      BY <1>1, <2>6, Zenon
  <1>12. CASE /\ st.revision = None \/ st.phase = "Idle"
              /\ primary # None /\ primary.rev = target /\ RunsLive(primary)
    <2>1. IsLegacy(lastGood)
      BY <1>7, <1>12, Zenon
    <2>2. st.phase \notin Active
      BY <1>7, <1>8, <1>12, Zenon
    <2>3. ASSUME plan.running PROVE FALSE
      <3>1. plan = base /\ base.running
        BY <1>5, <2>3, Zenon
      <3>2. action = "Start"
        BY <1>4, <1>6, <2>2, <3>1
      <3>3. lastGood # target /\ plan.primary = lastGood
        BY <1>4, <1>6, <2>2, <3>1, <3>2
      <3>4. lastGood \in Revisions /\ specForRevision(lastGood, target) # Unrendered
        BY <3>3, UnrenderedIsNoPod, Zenon DEF Carried
      <3>5. lastGood.v # "v2"
        BY <2>1 DEF IsLegacy
      <3>6. primary.rev = lastGood
        BY <1>1, <3>3, <3>4, <3>5, RenderedMeans, Zenon
      <3>7. QED
        BY <1>12, <3>3, <3>6
    <2>4. QED
      BY <1>1, <1>12, <2>1, <2>3, Zenon
  <1>13. CASE st.phase = "RollingBack" /\ st.revision = target
    <2>1. st.failed = target
      BY <1>7, <1>13, Zenon
    <2>2. QED
      BY <1>8, <1>11, <1>13, <2>1
  <1>14. CASE (st.revision = None \/ st.phase = "Idle") /\ st.failed = target
    <2>1. st.phase \notin Active /\ (st.phase = "Promoting" => st.revision = None)
      BY <1>7, <1>8, <1>14
    <2>2. QED
      BY <1>11, <1>14, <2>1, Zenon
  <1>15. QED
    BY <1>1, <1>9, <1>10, <1>12, <1>13, <1>14, Zenon DEF Adopted

(* The pods may differ in their telemetry arguments only.                  *)
SameWorkload(p, q) ==
  p.model = q.model /\ p.image = q.image /\ p.shim = q.shim /\ p.threshold = q.threshold

LEMMA SamePods ==
  ASSUME NEW p \in Pods, NEW q \in Pods, SameWorkload(p, q)
  PROVE  q = [p EXCEPT !.scoped = q.scoped]
  <1>1. ASSUME NEW f \in BOOLEAN
        PROVE  [p EXCEPT !.scoped = f] =
                 [model |-> p.model, image |-> p.image, shim |-> p.shim,
                  threshold |-> p.threshold, scoped |-> f]
    BY DEF Pods
  <1>2. q.scoped \in BOOLEAN
    BY DEF Pods
  <1>3. q = [model |-> q.model, image |-> q.image, shim |-> q.shim,
             threshold |-> q.threshold, scoped |-> q.scoped]
    BY DEF Pods
  <1>4. [p EXCEPT !.scoped = q.scoped] =
          [model |-> p.model, image |-> p.image, shim |-> p.shim,
           threshold |-> p.threshold, scoped |-> q.scoped]
    BY <1>1, <1>2, Zenon
  <1>5. QED
    BY <1>3, <1>4, Zenon DEF SameWorkload

LEMMA RunsLiveMeans ==
  ASSUME TypeInv, NEW d, RunsLive(d)
  PROVE  SameWorkload(d.pod, Pod(resolvedRevisionSpec(spec)))
  <1> DEFINE live == Pod(resolvedRevisionSpec(spec))
  <1>1. live \in Pods
    BY LiveTyped DEF TypeInv
  <1>2. d.pod = live \/ d.pod = [live EXCEPT !.scoped = FALSE]
    BY Zenon DEF RunsLive
  <1> HIDE DEF live
  <1>3. ASSUME NEW f PROVE SameWorkload([live EXCEPT !.scoped = f], live)
    BY <1>1 DEF Pods, SameWorkload
  <1>4. SameWorkload(live, live)
    BY DEF SameWorkload
  <1>5. QED
    BY <1>2, <1>3, <1>4, Zenon DEF live

(* The live workload fits the target, in either format.                    *)
LEMMA LiveFits ==
  ASSUME TypeInv, NEW target \in Revisions,
         target = Live \/ (IsLegacy(target) /\ legacyRecordedWorkloadEqual(spec, target)),
         NEW pod, pod = Pod(resolvedRevisionSpec(spec))
  PROVE  /\ Fits(Deployed(target, pod))
         /\ target = Live => pod = Pod(target)
  <1> DEFINE r == resolvedRevisionSpec(spec)
  <1>1. r.model = spec.model /\ r.shim = spec.shim /\ r.timeout \in Nat
    BY ResolvedMeans DEF TypeInv
  <1> HIDE DEF r
  <1>2. Pod(NewSnapshot(r)) = Pod(r) /\ NewSnapshot(r).v = "v2"
    BY DEF Pod, NewSnapshot
  <1>3. pod.model = spec.model /\ pod.shim = spec.shim
    BY <1>1 DEF Pod, r
  <1>4. pod.threshold >= 1
    <2>1. r.timeout \in Int
      BY <1>1
    <2>2. startupFailureThreshold(r.timeout) >= 1
      BY <2>1, ThresholdIsPositive, Zenon
    <2>3. pod.threshold = startupFailureThreshold(r.timeout)
      BY DEF Pod, r
    <2>4. QED
      BY <2>2, <2>3, Zenon
  <1>5. Deployed(target, pod).rev = target /\ Deployed(target, pod).pod = pod
    BY DEF Deployed
  <1>6. CASE target = Live
    <2>1. pod = Pod(target) /\ target.v = "v2"
      BY <1>2, <1>6, Zenon DEF Live, r
    <2>2. QED
      BY <1>5, <2>1, Zenon DEF Fits
  <1>7. CASE target # Live
    <2>1. target.v # "v2" /\ spec.model = target.model /\ spec.shim = target.shim
      BY <1>7, Zenon DEF IsLegacy, legacyRecordedWorkloadEqual
    <2>2. QED
      BY <1>3, <1>4, <1>5, <1>7, <2>1, Zenon DEF Fits
  <1>8. QED
    BY <1>6, <1>7

(* What is rendered under another label than the target's is what that     *)
(* label has stood for.                                                    *)
LEMMA OtherFits ==
  ASSUME TypeInv, LInv, NEW target \in Revisions, NEW want \in Revisions, want # target,
         NEW pod, pod = specForRevision(want, target), pod # Unrendered
  PROVE  /\ Fits(Deployed(want, pod))
         /\ want.v # "v2" => primary # None /\ primary.rev = want
         /\ primary # None /\ primary.rev = want => SameWorkload(primary.pod, pod)
  <1>1. Deployed(want, pod).rev = want /\ Deployed(want, pod).pod = pod
    BY DEF Deployed
  <1>2. CASE want.v = "v2"
    <2>1. pod = Pod(want)
      BY <1>2, RenderedMeans, Zenon
    <2>2. primary # None /\ primary.rev = want => primary.pod = pod
      BY <1>2, <2>1, Zenon DEF LInv, Fits
    <2>3. QED
      BY <1>1, <1>2, <2>1, <2>2, Zenon DEF Fits, SameWorkload
  <1>3. CASE want.v # "v2"
    <2> DEFINE t == primary.pod.threshold
               old == [model |-> want.model, shim |-> want.shim, image |-> primary.pod.image,
                       timeout |-> Period * t]
    <2>1. primary # None /\ primary.rev = want /\ pod = Pod(old)
      BY <1>3, RenderedMeans, Zenon
    <2>2. primary.pod.model = want.model /\ primary.pod.shim = want.shim /\ t >= 1
      BY <1>3, <2>1, Zenon DEF LInv, Fits
    <2>3. t \in Int
      BY <2>1 DEF TypeInv, Deployments, Pods
    <2> HIDE DEF t
    <2>4. startupFailureThreshold(Period * t) = t
      BY <2>2, <2>3, ThresholdOfPeriods, Zenon
    <2>5. /\ Pod(old).model = want.model /\ Pod(old).shim = want.shim
          /\ Pod(old).image = primary.pod.image
          /\ Pod(old).threshold = startupFailureThreshold(Period * t)
      BY DEF Pod
    <2> HIDE DEF old
    <2>6. SameWorkload(primary.pod, pod) /\ pod.model = want.model /\ pod.shim = want.shim
          /\ pod.threshold >= 1
      BY <2>1, <2>2, <2>4, <2>5, Zenon DEF SameWorkload, t
    <2>7. QED
      BY <1>1, <1>3, <2>1, <2>6, Zenon DEF Fits
  <1>4. QED
    BY <1>2, <1>3

(* A pass that has carried out its plan: the pods fit their labels, and    *)
(* under a label that stays they are the same.                             *)
LEMMA CarriedFits ==
  ASSUME TypeInv, LInv, NEW target, NEW plan, Took(target, plan), Carried(target, plan)
  PROVE  /\ primary'.rev = plan.primary /\ Fits(primary')
         /\ canary' # None => plan.running /\ canary'.rev = target /\ Fits(canary')
         /\ IsLegacy(plan.primary) => IsLegacy(lastGood)
         /\ plan.running /\ IsLegacy(target) => IsLegacy(lastGood) /\ lastGood # target
         /\ primary # None /\ primary.rev = primary'.rev => SameWorkload(primary.pod, primary'.pod)
         /\ canary # None /\ canary' # None /\ canary.rev = canary'.rev
              => SameWorkload(canary.pod, canary'.pod)
  <1> DEFINE live == Pod(resolvedRevisionSpec(spec))
             pod  == specForRevision(plan.primary, target)
  <1>1. /\ target \in Revisions /\ plan \in Plans(target)
        /\ plan.primary \in Revisions /\ pod \in Pods
        /\ primary' = Deployed(plan.primary, pod)
        /\ canary' = IF plan.running THEN Deployed(target, live) ELSE None
    BY Zenon DEF Took, Carried
  <1>2. plan.primary \in {target, lastGood}
    BY <1>1, PlanMeans, Zenon
  <1>3. target # Live =>
          /\ IsLegacy(target) /\ legacyRecordedWorkloadEqual(spec, target)
          /\ plan.running =>
               /\ st.phase \in Active /\ st.revision = target
               /\ canary # None /\ canary.rev = target /\ RunsLive(canary)
          /\ plan.primary = target =>
               /\ IsLegacy(lastGood)
               /\ primary # None /\ primary.rev = target => RunsLive(primary)
    BY LegacyCarried, Zenon
  <1>4. Fits(Deployed(target, live)) /\ (target = Live => live = Pod(target))
    BY <1>1, <1>3, LiveFits, Zenon
  <1>5. Live.v = "v2"
    BY LiveTyped DEF TypeInv, Live
  <1>6. ~IsLegacy(Live)
    BY <1>5 DEF IsLegacy
  <1>7. pod # Unrendered
    BY <1>1, UnrenderedIsNoPod, Zenon
  <1>8. plan.primary = target => pod = live
    BY Zenon DEF specForRevision
  <1>9. plan.primary # target =>
          /\ Fits(Deployed(plan.primary, pod))
          /\ primary # None /\ primary.rev = plan.primary => SameWorkload(primary.pod, pod)
    BY <1>1, <1>7, OtherFits, Zenon
  <1> HIDE DEF live, pod
  <1>10. primary'.rev = plan.primary /\ primary'.pod = pod
    BY <1>1 DEF Deployed
  <1>11. canary' # None => plan.running /\ canary' = Deployed(target, live)
    BY <1>1, Zenon
  <1>12. canary' # None => canary'.rev = target /\ canary'.pod = live
    BY <1>11 DEF Deployed
  <1>13. Fits(primary') /\ (canary' # None => Fits(canary'))
    BY <1>1, <1>4, <1>8, <1>9, <1>11, Zenon
  <1>14. IsLegacy(plan.primary) => IsLegacy(lastGood)
    BY <1>2, <1>3, <1>6
  <1>15. plan.running /\ IsLegacy(target) => IsLegacy(lastGood) /\ lastGood # target
    BY <1>3, <1>6, Zenon DEF LInv, StatusFits
  <1>16. ASSUME NEW d, d.pod = live PROVE SameWorkload(d.pod, live)
    BY <1>16 DEF SameWorkload
  <1>17. ASSUME NEW d, RunsLive(d) PROVE SameWorkload(d.pod, live)
    BY <1>17, RunsLiveMeans, Zenon DEF live
  <1>18. ASSUME primary # None, primary.rev = plan.primary PROVE SameWorkload(primary.pod, pod)
    <2>1. CASE plan.primary # target
      BY <1>9, <1>18, <2>1, Zenon
    <2>2. CASE plan.primary = target /\ target = Live
      <3>1. primary.pod = Pod(primary.rev)
        BY <1>5, <1>18, <2>2, Zenon DEF LInv, Fits
      <3>2. primary.pod = live
        BY <1>4, <1>18, <2>2, <3>1, Zenon
      <3>3. QED
        BY <1>8, <1>16, <2>2, <3>2, Zenon
    <2>3. CASE plan.primary = target /\ target # Live
      BY <1>3, <1>8, <1>17, <1>18, <2>3, Zenon
    <2>4. QED
      BY <2>1, <2>2, <2>3, Zenon
  <1>19. ASSUME canary # None, canary.rev = target, plan.running PROVE SameWorkload(canary.pod, live)
    <2>1. CASE target = Live
      <3>1. canary.pod = Pod(canary.rev)
        BY <1>5, <1>19, <2>1, Zenon DEF LInv, Fits
      <3>2. canary.pod = live
        BY <1>4, <1>19, <2>1, <3>1, Zenon
      <3>3. QED
        BY <1>16, <3>2, Zenon
    <2>2. CASE target # Live
      BY <1>3, <1>17, <1>19, <2>2, Zenon
    <2>3. QED
      BY <2>1, <2>2
  <1>20. QED
    BY <1>10, <1>11, <1>12, <1>13, <1>14, <1>15, <1>18, <1>19, Zenon

(* What the status says after the pass.                                    *)
LEMMA PlannedFits ==
  ASSUME TypeInv, LInv, NEW target, NEW plan, Took(target, plan), Carried(target, plan),
         NEW good, good = lastGood \/ (good = plan.primary /\ ~plan.running)
  PROVE  StatusFits(plan.st, good)
  <1>1. target \in Revisions /\ plan \in Plans(target) /\ plan.primary \in Revisions
    BY Zenon DEF Took, Carried
  <1>2. PICK action \in Verdicts(target) :
          LET base == Planned(target, action)
          IN  \/ plan = base
              \/ /\ ~base.running /\ ~base.held /\ lastGood # None /\ base.primary = target
                 /\ lastGood # target /\ plan.primary = lastGood
                 /\ plan.held = TRUE /\ plan.running = FALSE
                 /\ plan.st = [base.st EXCEPT !.failed = target]
    BY <1>1, PlansMean, Zenon
  <1> DEFINE base == Planned(target, action)
  <1>3. action \in Actions
    BY VerdictsMean
  <1>4. /\ base.running = (action \in {"Start", "Wait", "Pause"}) /\ base.held \in BOOLEAN
        /\ base.primary \in {target, lastGood}
        /\ base.held => ~base.running /\ base.primary = lastGood
        /\ base.running => base.primary = lastGood /\ base.canary = target
        /\ action = "Rollback" => base.primary = lastGood
        /\ base.st \in StatusType
        /\ base.st.revision = (IF action = "None" THEN None
                               ELSE IF action = "Rollback" THEN st.revision ELSE target)
        /\ base.st.phase = (IF action \in {"Start", "Wait"} THEN "Canarying"
                            ELSE IF action = "Pause" THEN "Paused"
                            ELSE IF action = "Promote" THEN "Promoting"
                            ELSE IF action = "Rollback" THEN "RollingBack" ELSE "Idle")
        /\ base.st.failed = (IF action = "Rollback" THEN st.revision
                             ELSE IF rolling /\ st.failed # target THEN None ELSE st.failed)
        /\ base.held = (~base.running /\ base.st.failed = target
                          /\ lastGood \notin {None, target})
        /\ (~base.running /\ ~base.held /\ action # "Rollback") => base.primary = target
    BY <1>1, <1>3, PlannedMeans, Zenon
  <1>5. /\ action = "Rollback" => st.phase \in Active
        /\ action = "Promote" => st.phase \in Active \cup {"Promoting"} /\ st.revision = target
    BY <1>1, VerdictsFrom, Zenon
  <1>6. \/ plan = base
        \/ /\ plan.st = [base.st EXCEPT !.failed = target] /\ plan.running = FALSE
           /\ base.primary = target /\ plan.primary = lastGood /\ lastGood \notin {None, target}
           /\ ~base.running
    BY <1>2, Zenon
  <1> HIDE DEF base
  <1>7. /\ plan.st.revision = base.st.revision /\ plan.st.phase = base.st.phase
        /\ plan.running = base.running
        /\ \/ plan.st.failed = base.st.failed /\ plan.primary = base.primary
           \/ /\ plan.st.failed = target /\ plan.primary = lastGood /\ action # "Rollback"
              /\ lastGood \notin {None, target}
    <2>1. CASE plan = base
      BY <2>1, Zenon
    <2>2. CASE /\ plan.st = [base.st EXCEPT !.failed = target] /\ plan.running = FALSE
               /\ base.primary = target /\ plan.primary = lastGood /\ lastGood \notin {None, target}
               /\ ~base.running
      <3>1. /\ plan.st.revision = base.st.revision /\ plan.st.phase = base.st.phase
            /\ plan.st.failed = target
        BY <1>4, <2>2 DEF StatusType
      <3>2. plan.running = base.running
        <4>1. base.running \in BOOLEAN
          BY <1>4
        <4>2. QED
          BY <2>2, <4>1
      <3>3. action # "Rollback"
        BY <1>4, <2>2, Zenon
      <3>4. QED
        BY <2>2, <3>1, <3>2, <3>3, Zenon
    <2>3. QED
      BY <1>6, <2>1, <2>2, Zenon
  <1>8. /\ IsLegacy(st.failed) => lastGood \notin {None, st.failed}
        /\ IsLegacy(st.revision) /\ st.phase \in Active => IsLegacy(lastGood) /\ lastGood # st.revision
        /\ IsLegacy(st.revision) /\ st.phase = "Promoting" => IsLegacy(lastGood)
    BY Zenon DEF LInv, StatusFits
  <1>9. plan.running /\ IsLegacy(target) => IsLegacy(lastGood) /\ lastGood # target
    BY CarriedFits, Zenon
  <1>10. target # None /\ plan.primary # None /\ ~IsLegacy(None)
    BY <1>1, MigrationAssumption DEF IsLegacy
  <1>11. IsLegacy(lastGood) => lastGood # None
    BY DEF IsLegacy
  <1>12. ASSUME IsLegacy(plan.st.failed) PROVE good \notin {None, plan.st.failed}
    <2>1. CASE action = "Rollback"
      <3>1. plan.st.failed = st.revision /\ plan.primary = lastGood
        BY <1>4, <1>7, <2>1
      <3>2. lastGood \notin {None, st.revision}
        BY <1>5, <1>8, <1>11, <1>12, <2>1, <3>1
      <3>3. QED
        BY <3>1, <3>2
    <2>2. CASE plan.st.failed = target /\ plan.primary = lastGood /\ lastGood \notin {None, target}
      BY <2>2
    <2>3. CASE action # "Rollback" /\ plan.st.failed = base.st.failed /\ plan.primary = base.primary
      <3>1. plan.st.failed = st.failed
        BY <1>4, <1>10, <1>12, <2>3
      <3>2. lastGood \notin {None, st.failed}
        BY <1>8, <1>12, <3>1
      <3>3. CASE good = lastGood
        BY <3>1, <3>2, <3>3
      <3>4. CASE good = plan.primary /\ ~plan.running /\ good # lastGood
        <4>1. plan.primary = target
          BY <1>4, <2>3, <3>4
        <4>2. target # st.failed
          <5>1. SUFFICES ASSUME target = st.failed PROVE base.held
            BY <1>4, <2>3, <3>4, <4>1
          <5>2. QED
            BY <1>4, <1>7, <2>3, <3>1, <3>2, <3>4, <5>1, Zenon
        <4>3. QED
          BY <1>10, <3>1, <3>4, <4>1, <4>2
      <3>5. QED
        BY <3>3, <3>4
    <2>4. QED
      BY <1>7, <2>1, <2>2, <2>3, Zenon
  <1>13. plan.st.phase \in Active => plan.st.revision # None /\ plan.running
    BY <1>3, <1>4, <1>7, <1>10 DEF Actions, Active
  <1>14. ASSUME IsLegacy(plan.st.revision), plan.st.phase = "RollingBack"
         PROVE  plan.st.failed = plan.st.revision
    BY <1>4, <1>7, <1>14
  <1>15. ASSUME IsLegacy(plan.st.revision), plan.st.phase \in Active
         PROVE  IsLegacy(good) /\ good # plan.st.revision
    <2>1. plan.st.revision = target /\ plan.running
      BY <1>3, <1>4, <1>7, <1>10, <1>13, <1>15 DEF Actions, Active
    <2>2. good = lastGood
      BY <2>1
    <2>3. QED
      BY <1>9, <1>15, <2>1, <2>2
  <1>16. ASSUME IsLegacy(plan.st.revision), plan.st.phase = "Promoting"
         PROVE  IsLegacy(good)
    <2>1. action = "Promote" /\ plan.st.revision = target
      BY <1>3, <1>4, <1>7, <1>16 DEF Actions
    <2>2. st.revision = target /\ st.phase \in Active \cup {"Promoting"}
      BY <1>5, <2>1
    <2>3. IsLegacy(lastGood) /\ IsLegacy(target)
      BY <1>8, <1>16, <2>1, <2>2
    <2>4. plan.primary \in {target, lastGood}
      BY <1>4, <1>7
    <2>5. QED
      BY <2>3, <2>4
  <1>17. QED
    BY <1>12, <1>13, <1>14, <1>15, <1>16, Zenon DEF StatusFits

LEMMA CarriedKeepsLInv ==
  ASSUME TypeInv, LInv, NEW target, NEW plan, Took(target, plan), Carried(target, plan)
  PROVE  LInv'
  <1>1. /\ primary'.rev = plan.primary /\ Fits(primary')
        /\ canary' # None => plan.running /\ canary'.rev = target /\ Fits(canary')
        /\ IsLegacy(plan.primary) => IsLegacy(lastGood)
        /\ plan.running /\ IsLegacy(target) => IsLegacy(lastGood) /\ lastGood # target
    BY CarriedFits, Zenon
  <1>2. target \in Revisions /\ plan \in Plans(target)
    BY DEF Took
  <1>3. plan.running => plan.primary = lastGood
    BY <1>2, PlanMeans, Zenon
  <1>4. \/ /\ st' = plan.st
           /\ lastGood' = lastGood \/ (lastGood' = plan.primary /\ ~plan.running)
        \/ st' = st /\ lastGood' = lastGood
    BY Zenon DEF Carried
  <1>5. StatusFits(st', lastGood')
    <2>1. CASE st' = plan.st /\ (lastGood' = lastGood \/ (lastGood' = plan.primary /\ ~plan.running))
      BY <2>1, PlannedFits, Zenon
    <2>2. CASE st' = st /\ lastGood' = lastGood
      BY <2>2, Zenon DEF LInv
    <2>3. QED
      BY <1>4, <2>1, <2>2, Zenon
  <1>6. Fits(primary)' /\ (canary' # None => Fits(canary)')
    BY <1>1, Zenon DEF Fits, Pod, startupFailureThreshold
  <1>7. IsLegacy(primary'.rev) => IsLegacy(lastGood')
    BY <1>1, <1>4, Zenon
  <1>8. canary' # None /\ IsLegacy(canary'.rev) => canary'.rev # primary'.rev
    BY <1>1, <1>3, Zenon
  <1>9. StatusFits(st, lastGood)'
    BY <1>5, Zenon DEF StatusFits, IsLegacy
  <1>10. QED
    BY <1>6, <1>7, <1>8, <1>9, Zenon DEF LInv, IsLegacy

(* A pass that gives up, and whoever deletes a Deployment.                 *)
LEMMA LessKeepsLInv ==
  ASSUME TypeInv, LInv, primary' \in {primary, None}, canary' \in {canary, None},
         lastGood' = lastGood, st' = st \/ st' = [st EXCEPT !.phase = "Idle"]
  PROVE  LInv'
  <1>1. /\ st'.revision = st.revision /\ st'.failed = st.failed
        /\ st'.phase = st.phase \/ st'.phase = "Idle"
    BY DEF TypeInv, StatusType
  <1>2. "Idle" \notin Active
    BY DEF Active
  <1>3. StatusFits(st', lastGood)
    BY <1>1, <1>2 DEF LInv, StatusFits
  <1>4. StatusFits(st, lastGood)'
    BY <1>3, Zenon DEF StatusFits, IsLegacy
  <1>5. /\ primary' # None => primary' = primary
        /\ canary' # None => canary' = canary
    BY Zenon
  <1>6. QED
    BY <1>4, <1>5, Zenon DEF LInv, Fits, IsLegacy, Pod, startupFailureThreshold

(* One step keeps the invariant, and every label its workload.             *)
Keeps(d, e) == None \notin {d, e} /\ d.rev = e.rev => SameWorkload(d.pod, e.pod)

LEMMA StepKeepsLabels ==
  ASSUME TypeInv, LInv, [Next]_mvars
  PROVE  LInv' /\ Keeps(primary, primary') /\ Keeps(canary, canary')
  <1>1. ASSUME primary' \in {primary, None}, canary' \in {canary, None},
               lastGood' = lastGood, st' = st \/ st' = [st EXCEPT !.phase = "Idle"]
        PROVE  LInv' /\ Keeps(primary, primary') /\ Keeps(canary, canary')
    <2>1. LInv'
      BY <1>1, LessKeepsLInv, Zenon
    <2>2. Keeps(primary, primary') /\ Keeps(canary, canary')
      BY <1>1, Zenon DEF Keeps, SameWorkload
    <2>3. QED
      BY <2>1, <2>2
  <1>2. ASSUME UNCHANGED <<st, lastGood, primary, canary>>
        PROVE  LInv' /\ Keeps(primary, primary') /\ Keeps(canary, canary')
    BY <1>1, <1>2, Zenon
  <1>3. CASE Reconcile
    <2>1. Away \/ \E target, plan : Took(target, plan)
      BY <1>3, ReconcileMeans, Zenon
    <2>2. CASE Away
      BY <1>2, <2>2, Zenon DEF Away, Serving
    <2>3. ASSUME NEW target, NEW plan, Took(target, plan)
          PROVE  LInv' /\ Keeps(primary, primary') /\ Keeps(canary, canary')
      <3>1. CASE GaveUp
        BY <1>1, <3>1, Zenon DEF GaveUp
      <3>2. CASE Carried(target, plan)
        <4>1. LInv'
          BY <2>3, <3>2, CarriedKeepsLInv, Zenon
        <4>2. /\ primary # None /\ primary.rev = primary'.rev
                   => SameWorkload(primary.pod, primary'.pod)
              /\ canary # None /\ canary' # None /\ canary.rev = canary'.rev
                   => SameWorkload(canary.pod, canary'.pod)
          BY <2>3, <3>2, CarriedFits, Zenon
        <4>3. QED
          BY <4>1, <4>2, Zenon DEF Keeps
      <3>3. QED
        BY <2>3, <3>1, <3>2, Zenon DEF Took
    <2>4. QED
      BY <2>1, <2>2, <2>3, Zenon
  <1>4. CASE (\E s \in Specs : Edit(s)) \/ Annotate \/ Converge \/ CacheCatchesUp
             \/ UNCHANGED mvars
    <2>1. UNCHANGED <<st, lastGood, primary, canary>>
      BY <1>4, Zenon DEF Edit, Annotate, Converge, CacheCatchesUp, Serving, mvars
    <2>2. QED
      BY <1>2, <2>1
  <1>5. CASE Tamper
    <2>1. /\ primary' \in {primary, None} /\ canary' \in {canary, None}
          /\ lastGood' = lastGood /\ st' = st
      BY <1>5, Zenon DEF Tamper
    <2>2. QED
      BY <1>1, <2>1, Zenon
  <1>6. QED
    BY <1>3, <1>4, <1>5, Zenon DEF Next

(* Whatever the old controller left.                                       *)
LEMMA OldPodFits ==
  ASSUME NEW s \in Specs, NEW image \in OldImages, NEW scoped \in BOOLEAN
  PROVE  /\ Fits(Deployed(Legacy(s), OldPod(s, image, scoped)))
         /\ Deployed(Legacy(s), OldPod(s, image, scoped)).rev = Legacy(s)
         /\ IsLegacy(Legacy(s))
  <1> DEFINE d == Deployed(Legacy(s), OldPod(s, image, scoped))
             t == IF s.timeout = Unset THEN DefaultTimeout ELSE s.timeout
  <1>1. t \in Nat
    <2>1. s.timeout \in Timeouts \cup {Unset}
      BY DEF Specs
    <2>2. QED
      BY <2>1, MigrationAssumption, Zenon
  <1>2. t \in Int
    BY <1>1
  <1>3. startupFailureThreshold(t) >= 1
    BY <1>2, ThresholdIsPositive, Zenon
  <1>4. /\ d.rev = Legacy(s) /\ d.pod = OldPod(s, image, scoped)
    BY DEF Deployed
  <1>5. /\ OldPod(s, image, scoped).model = s.model /\ OldPod(s, image, scoped).shim = s.shim
        /\ OldPod(s, image, scoped).threshold = startupFailureThreshold(t)
    BY DEF OldPod
  <1>6. /\ Legacy(s).v = "legacy" /\ Legacy(s).model = s.model /\ Legacy(s).shim = s.shim
    BY DEF Legacy
  <1>7. Legacy(s) # None
    BY LeftTyped, MigrationAssumption, Zenon
  <1> HIDE DEF d, t
  <1>8. Fits(d)
    BY <1>3, <1>4, <1>5, <1>6, Zenon DEF Fits
  <1>9. QED
    BY <1>4, <1>6, <1>7, <1>8, Zenon DEF IsLegacy, d

LEMMA LeftFits ==
  ASSUME spec \in Specs, NEW phase, NEW before \in Specs, NEW image \in OldImages,
         NEW scoped \in BOOLEAN, Left(phase, before, image, scoped),
         phase \in {"fresh", "steady", "Canarying", "Paused", "Promoting", "RollingBack",
                    "rejected"},
         before.model # spec.model
  PROVE  LInv
  <1> DEFINE now  == Legacy(spec)
             good == Legacy(before)
             old  == Deployed(good, OldPod(before, image, scoped))
             new  == Deployed(now, OldPod(spec, image, scoped))
  <1>1. /\ Fits(old) /\ Fits(new) /\ old.rev = good /\ new.rev = now
        /\ IsLegacy(now) /\ IsLegacy(good)
    BY OldPodFits, Zenon
  <1>2. good # now
    BY DEF Legacy
  <1>3. ~IsLegacy(None)
    BY DEF IsLegacy
  <1>4. now # None /\ good # None
    BY <1>1, <1>3, Zenon
  <1>5. "Idle" \notin Active /\ "Promoting" \notin Active /\ "RollingBack" \notin Active
    BY DEF Active
  <1>6. CASE phase = "fresh"
    <2>1. /\ st = Status("Idle", None, None, None) /\ lastGood = None /\ stable = None
          /\ primary = None /\ canary = None
      BY <1>6, Zenon DEF Left, Active
    <2>2. st.phase = "Idle" /\ st.revision = None /\ st.failed = None
      BY <2>1 DEF Status
    <2>3. QED
      BY <1>3, <1>5, <2>1, <2>2, Zenon DEF LInv, StatusFits
  <1>7. CASE phase = "steady"
    <2>1. /\ st = Status("Idle", None, None, now) /\ lastGood = now /\ stable = now
          /\ primary = new /\ canary = None
      BY <1>7, Zenon DEF Left, Active
    <2> HIDE DEF now, good, old, new
    <2>2. st.phase = "Idle" /\ st.revision = None /\ st.failed = None
      BY <2>1 DEF Status
    <2>3. QED
      BY <1>1, <1>3, <1>5, <2>1, <2>2, Zenon DEF LInv, StatusFits
  <1>8. CASE phase \in Active
    <2>1. /\ st = Status(phase, now, None, good) /\ lastGood = good /\ stable = good
          /\ primary = old /\ canary = new
      BY <1>8, Zenon DEF Left, Active
    <2> HIDE DEF now, good, old, new
    <2>2. st.phase = phase /\ st.revision = now /\ st.failed = None
      BY <2>1 DEF Status
    <2>3. phase # "RollingBack" /\ phase # "Promoting"
      BY <1>5, <1>8
    <2>4. StatusFits(st, lastGood)
      BY <1>1, <1>2, <1>3, <1>4, <2>1, <2>2, <2>3, Zenon DEF StatusFits
    <2>5. QED
      BY <1>1, <1>2, <2>1, <2>4, Zenon DEF LInv
  <1>9. CASE phase = "Promoting"
    <2>1. /\ st = Status(phase, now, None, good) /\ lastGood = good /\ stable = now
          /\ primary = new /\ canary = None
      BY <1>9, Zenon DEF Left, Active
    <2> HIDE DEF now, good, old, new
    <2>2. st.phase = "Promoting" /\ st.revision = now /\ st.failed = None
      BY <1>9, <2>1 DEF Status
    <2>3. StatusFits(st, lastGood)
      BY <1>1, <1>3, <1>5, <2>1, <2>2 DEF StatusFits
    <2>4. QED
      BY <1>1, <2>1, <2>3, Zenon DEF LInv
  <1>10. CASE phase = "RollingBack"
    <2>1. /\ st = Status(phase, now, now, good) /\ lastGood = good /\ stable = good
          /\ primary = old /\ canary = None
      BY <1>10, Zenon DEF Left, Active
    <2> HIDE DEF now, good, old, new
    <2>2. st.phase = "RollingBack" /\ st.revision = now /\ st.failed = now
      BY <1>10, <2>1 DEF Status
    <2>3. StatusFits(st, lastGood)
      BY <1>1, <1>2, <1>3, <1>4, <1>5, <2>1, <2>2 DEF StatusFits
    <2>4. QED
      BY <1>1, <2>1, <2>3, Zenon DEF LInv
  <1>11. CASE phase = "rejected"
    <2>1. /\ st = Status("Idle", None, now, good) /\ lastGood = good /\ stable = good
          /\ primary = old /\ canary = None
      BY <1>11, Zenon DEF Left, Active
    <2> HIDE DEF now, good, old, new
    <2>2. st.phase = "Idle" /\ st.revision = None /\ st.failed = now
      BY <2>1 DEF Status
    <2>3. StatusFits(st, lastGood)
      BY <1>1, <1>2, <1>3, <1>4, <1>5, <2>1, <2>2 DEF StatusFits
    <2>4. QED
      BY <1>1, <2>1, <2>3, Zenon DEF LInv
  <1>12. QED
    BY <1>6, <1>7, <1>8, <1>9, <1>10, <1>11 DEF Active

LEMMA InitLInv == Init => LInv
  <1> SUFFICES ASSUME Init PROVE LInv
    OBVIOUS
  <1>1. spec \in Specs
    BY Zenon DEF Init
  <1>2. PICK phase \in {"fresh", "steady", "Canarying", "Paused", "Promoting", "RollingBack",
                        "rejected"},
             before \in { s \in Specs : s.model # spec.model
                                          /\ [s EXCEPT !.model = spec.model] = spec },
             image \in OldImages, scoped \in BOOLEAN :
          /\ rolling => phase \in {"fresh", "steady", "rejected"}
          /\ Left(phase, before, image, scoped)
          /\ store = [id \in (IF phase = "fresh" THEN {}
                              ELSE IF phase = "steady" THEN {Legacy(spec)}
                              ELSE {Legacy(before), Legacy(spec)})
                        |-> IF id = Legacy(spec) THEN 2 ELSE 1]
          /\ hist = [touched |-> phase = "fresh" \/ image # DefaultImage, tampered |-> FALSE,
                     unpinned |-> FALSE]
    BY Zenon DEF Init
  <1>3. before \in Specs /\ before.model # spec.model
    OBVIOUS
  <1>4. QED
    BY <1>1, <1>2, <1>3, LeftFits, Zenon

LEMMA AlwaysLInv == Spec => [](TypeInv /\ LInv)
  <1>1. RInv => TypeInv
    BY DEF RInv
  <1>2. TypeInv /\ LInv /\ [Next]_mvars => LInv'
    BY StepKeepsLabels, Zenon
  <1>3. QED
    BY <1>1, <1>2, InitLInv, AlwaysRInv, PTL DEF Spec

LEMMA LabelStep ==
  ASSUME TypeInv, TypeInv', LInv, [Next]_mvars
  PROVE  \A d \in {<<primary, primary'>>, <<canary, canary'>>} :
           (None \notin {d[1], d[2]} /\ d[1].rev = d[2].rev)
             => d[2].pod = [d[1].pod EXCEPT !.scoped = d[2].pod.scoped]
  <1>1. Keeps(primary, primary') /\ Keeps(canary, canary')
    BY StepKeepsLabels, Zenon
  <1>2. ASSUME NEW x \in Deployments \cup {None}, NEW y \in Deployments \cup {None}, Keeps(x, y),
               None \notin {x, y}, x.rev = y.rev
        PROVE  y.pod = [x.pod EXCEPT !.scoped = y.pod.scoped]
    <2>1. x.pod \in Pods /\ y.pod \in Pods
      BY <1>2 DEF Deployments
    <2>2. QED
      BY <1>2, <2>1, SamePods, Zenon DEF Keeps
  <1>3. /\ primary \in Deployments \cup {None} /\ primary' \in Deployments \cup {None}
        /\ canary \in Deployments \cup {None} /\ canary' \in Deployments \cup {None}
    BY Zenon DEF TypeInv
  <1>4. ASSUME NEW x \in Deployments \cup {None}, NEW y \in Deployments \cup {None}, Keeps(x, y),
               None \notin {<<x, y>>[1], <<x, y>>[2]}, <<x, y>>[1].rev = <<x, y>>[2].rev
        PROVE  <<x, y>>[2].pod = [<<x, y>>[1].pod EXCEPT !.scoped = <<x, y>>[2].pod.scoped]
    <2>1. <<x, y>>[1] = x /\ <<x, y>>[2] = y
      OBVIOUS
    <2>2. QED
      BY <1>2, <1>4, <2>1, Zenon
  <1>5. TAKE d \in {<<primary, primary'>>, <<canary, canary'>>}
  <1>6. CASE d = <<primary, primary'>>
    BY <1>1, <1>3, <1>4, <1>6, Zenon
  <1>7. CASE d = <<canary, canary'>>
    BY <1>1, <1>3, <1>4, <1>7, Zenon
  <1>8. QED
    BY <1>6, <1>7

(* As long as a Deployment keeps its revision label its pods keep model,   *)
(* image, probe budget and sidecar, whatever is edited, lost, pruned or    *)
(* deleted, and in either format of the history (specForRevision,          *)
(* resolveLegacyRevisionSpec, targetRevisionForMigration).                 *)
THEOREM LabelAlwaysMeansOneWorkload == Spec => LabelMeansOneWorkload
  <1>1. TypeInv /\ TypeInv' /\ LInv /\ [Next]_mvars =>
          [\A d \in {<<primary, primary'>>, <<canary, canary'>>} :
             (None \notin {d[1], d[2]} /\ d[1].rev = d[2].rev)
               => d[2].pod = [d[1].pod EXCEPT !.scoped = d[2].pod.scoped]]_mvars
    BY LabelStep, Zenon
  <1>2. QED
    BY <1>1, AlwaysLInv, PTL DEF Spec, LabelMeansOneWorkload
=============================================================================
