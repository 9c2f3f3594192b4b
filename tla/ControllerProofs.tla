--------------------------- MODULE ControllerProofs ---------------------------
(***************************************************************************)
(* What the call-by-call controller guarantees for every plan, replica     *)
(* count, set of revisions and number of edits and faults: rejections      *)
(* stand, approvals are not reused, and a quiet controller is done.        *)
(*                                                                         *)
(* The inductive invariant says what a pass in flight knows.  Its plan was *)
(* made from the status that is still there, because nothing but the end   *)
(* of a pass writes status; its target and annotations may be out of date, *)
(* and PassInv says exactly what still holds of the plan then.             *)
(***************************************************************************)
EXTENDS Controller, PlanLemmas

Annotations == {"promote", "abort"}

PrimaryType == [revision : Revs, replicas : Nat, synced : BOOLEAN,
                health : {"rolling", "converged", "stalled"}]

TypeInv ==
  /\ obj \in [target : Revisions, valid : BOOLEAN, ann : SUBSET Annotations,
              st : StateType, stable : Revs]
  /\ dep \in DeploymentType /\ primary \in PrimaryType
  /\ seen \in [dep : DeploymentType, primary : PrimaryType]
  /\ pass \in [at : {"idle", "applied", "cleared"}, fresh : BOOLEAN, res : ResultType,
               md : [target : Revs, ann : SUBSET Annotations, stable : Revs]]
  /\ wake \in BOOLEAN /\ timer \in BOOLEAN
  /\ hist \in [approvedFor : Revs, rejected : BOOLEAN]

(* Status: a canary in flight has a fallback; one that waits for a person  *)
(* was asked to, and an approval it finds is its own.                      *)
StatusInv ==
  /\ isActive(obj.st.phase) =>
       /\ obj.stable # NoRevision /\ obj.st.stable = obj.stable
       /\ obj.st.revision \in Revisions
  /\ obj.st.phase = "Paused" =>
       /\ Plan.requireApproval
       /\ "promote" \in obj.ann => hist.approvedFor = obj.st.revision

(* A pass in flight: what its plan says of status, and what it has already *)
(* made run.                                                               *)
PlanHolds ==
  LET res == pass.res IN
  /\ res.primaryRevision \in {obj.stable, pass.md.target} \ {NoRevision}
  /\ (res.rolledBack \/ res.out.action = "Rollback") =>
       res.primaryRevision = obj.stable /\ res.out.action \notin Running
  /\ res.out.action \in Running =>
       /\ obj.stable # NoRevision /\ res.primaryRevision = obj.stable
       /\ res.out.state.stable = obj.stable /\ res.out.state.revision \in Revisions
       /\ res.canaryRevision = pass.md.target /\ res.out.state.revision = pass.md.target
       /\ Room => res.canaryReplicas > 0
  /\ res.out.action \notin Running => res.canaryRevision = NoRevision
  /\ res.out.action \in {"Start", "Advance", "Wait", "Promote"} => res.out.requeue > 0
  /\ res.out.action = "Pause" => Plan.requireApproval
  /\ (res.out.action = "Promote" /\ obj.st.phase = "Paused") =>
       hist.approvedFor = obj.st.revision \/ Plan.onInconclusive = "Promote"
  /\ hist.rejected =>
       /\ pass.md.target = obj.target
       /\ obj.stable \notin {NoRevision, obj.target} =>
            res.out.state.failed = obj.target /\ res.out.action \notin Running

PassInv ==
  pass.at # "idle" =>
    /\ pass.md.stable = obj.stable /\ PlanHolds
    /\ primary.revision = pass.res.primaryRevision
    /\ dep.uid # NoUID <=> pass.res.canaryRevision # NoRevision /\ pass.res.canaryReplicas # 0
    /\ dep.uid # NoUID => dep.revision = pass.res.canaryRevision
    /\ pass.at = "cleared" /\ pass.fresh => obj.ann = {}
    /\ ~wake => pass.fresh /\ pass.md.target = obj.target

Done ==
  /\ dep.uid # NoUID => isActive(obj.st.phase) /\ dep.revision = obj.st.revision
  /\ isActive(obj.st.phase) =>
       /\ Room => dep.uid # NoUID
       /\ obj.st.revision = obj.target /\ primary.revision = obj.stable
  /\ obj.st.phase \in {"Progressing", "Promoting"} => timer

QuietInv == pass.at = "idle" /\ ~wake /\ obj.valid => Done

CInv == TypeInv /\ StatusInv /\ PassInv /\ QuietInv /\ RejectionStands

-----------------------------------------------------------------------------
(* The calls of a pass. *)

LEMMA InputTyped ==
  ASSUME TypeInv, StatusInv
  PROVE  /\ InputOf(obj) \in InputType /\ Fallback(InputOf(obj))
         /\ InputOf(obj).state = obj.st /\ InputOf(obj).target = obj.target
         /\ InputOf(obj).stable = obj.stable /\ InputOf(obj).plan = Plan
         /\ InputOf(obj).total = Total /\ InputOf(obj).approved = ("promote" \in obj.ann)
  <1>1. obj.st \in StateType /\ obj.target \in Revisions /\ obj.stable \in Revs
        /\ seen.dep \in DeploymentType
    BY Zenon DEF TypeInv
  <1>2. obj.st \in MachineState
    BY <1>1, Zenon DEF StateType, MachineState, Phases
  <1>3. InputOf(obj) \in InputType
    BY <1>1, <1>2, ControllerAssumption DEF InputOf, InputType
  <1>4. /\ InputOf(obj).state = obj.st /\ InputOf(obj).target = obj.target
        /\ InputOf(obj).stable = obj.stable /\ InputOf(obj).plan = Plan
        /\ InputOf(obj).total = Total /\ InputOf(obj).approved = ("promote" \in obj.ann)
    BY Zenon DEF InputOf
  <1>5. Fallback(InputOf(obj))
    BY <1>2, <1>4, Zenon DEF Fallback, InFlight, StatusInv
  <1>6. QED
    BY <1>3, <1>4, <1>5, Zenon

LEMMA ApplyPrimaryEffect ==
  ASSUME TypeInv, NEW res \in ResultType, ApplyPrimary(res)
  PROVE  primary' \in PrimaryType /\ primary'.revision = res.primaryRevision
  <1>1. primary \in PrimaryType /\ res.primaryRevision \in Revs /\ res.primaryReplicas \in Nat
    BY Zenon DEF TypeInv, ResultType
  <1>2. QED
    BY <1>1, Zenon DEF ApplyPrimary, PrimaryType

LEMMA FreshIdentifiers ==
  ASSUME TypeInv
  PROVE  FreshUID \in UIDs /\ FreshGeneration \in Generations
  <1>1. /\ dep.uid \in AnyUID /\ seen.dep.uid \in AnyUID /\ obj.st.readiness.uid \in AnyUID
        /\ dep.generation \in AnyGeneration /\ seen.dep.generation \in AnyGeneration
        /\ obj.st.readiness.generation \in AnyGeneration
    BY Zenon DEF TypeInv, DeploymentType, StateType, ReadinessType
  <1>2. \E u \in UIDs : u \notin {dep.uid, seen.dep.uid, obj.st.readiness.uid}
    BY <1>1, ControllerAssumption, Zenon
  <1>3. \E g \in Generations : g \notin {dep.generation, seen.dep.generation,
                                         obj.st.readiness.generation}
    BY <1>1, ControllerAssumption, Zenon
  <1>4. QED
    BY <1>2, <1>3, Zenon DEF FreshUID, FreshGeneration

LEMMA ApplyCanaryEffect ==
  ASSUME TypeInv, NEW res \in ResultType, ApplyCanary(res)
  PROVE  /\ dep' \in DeploymentType
         /\ dep'.uid # NoUID <=> res.canaryRevision # NoRevision /\ res.canaryReplicas # 0
         /\ dep'.uid # NoUID => dep'.revision = res.canaryRevision
  <1>1. /\ dep \in DeploymentType /\ res.canaryRevision \in Revs /\ res.canaryReplicas \in Nat
    BY Zenon DEF TypeInv, ResultType
  <1>2. FreshUID \in AnyUID /\ FreshUID # NoUID /\ FreshGeneration \in AnyGeneration
        /\ 1 \in AnyGeneration
    BY FreshIdentifiers, NameAssumption, Zenon DEF AnyUID, AnyGeneration
  <1>3. NoDeployment \in DeploymentType /\ NoDeployment.uid = NoUID
    BY Zenon DEF NoDeployment, DeploymentType, AnyUID, Revs, AnyGeneration
  <1>4. CASE res.canaryRevision = NoRevision \/ res.canaryReplicas = 0
    BY <1>3, <1>4, Zenon DEF ApplyCanary
  <1>5. CASE res.canaryRevision # NoRevision /\ res.canaryReplicas # 0
    <2>1. CASE dep.uid = NoUID
      BY <1>1, <1>2, <1>5, <2>1, Zenon DEF ApplyCanary, DeploymentType
    <2>2. CASE dep.uid # NoUID
      BY <1>1, <1>2, <1>5, <2>2, Zenon DEF ApplyCanary, DeploymentType
    <2>3. QED
      BY <2>1, <2>2, Zenon
  <1>6. QED
    BY <1>4, <1>5, Zenon

LEMMA RestingTyped ==
  Resting \in [at : {"idle", "applied", "cleared"}, fresh : BOOLEAN, res : ResultType,
               md : [target : Revs, ann : SUBSET Annotations, stable : Revs]]
  /\ Resting.at = "idle"
  <1> DEFINE o == Alone([total |-> 0], EmptyState, "None", "CanaryNotRunning", 0, 0)
  <1>1. o \in OutputType /\ o.action = "None"
    <2>1. "None" \in Actions /\ "CanaryNotRunning" \in Reasons
      BY ActionNames, ReasonNames, Zenon
    <2>2. QED
      BY <2>1, EmptyTyped, Zenon DEF Alone, OutputType
  <1>2. o.primary = 0 /\ o.canary = 0
    BY Zenon DEF Alone
  <1> HIDE DEF o
  <1>3. NoResult = planCanary([target |-> NoRevision, stable |-> NoRevision, total |-> 0], o)
    BY Zenon DEF NoResult, o
  <1>4. NoResult \in ResultType
    BY <1>1, <1>2, <1>3 DEF planCanary, ResultType, Revs
  <1> HIDE DEF NoResult
  <1>5. QED
    BY <1>4, Zenon DEF Resting, Revs

(* What planning from the current status promises of it. *)
LEMMA PlanNow ==
  ASSUME CInv, NEW checks \in SUBSET Verdicts, NEW stalled
  PROVE  LET res == planRollout(InputOf(obj), TRUE, checks, stalled)
         IN  /\ res \in ResultType
             /\ res.primaryRevision \in {obj.stable, obj.target} \ {NoRevision}
             /\ (res.rolledBack \/ res.out.action = "Rollback") =>
                  res.primaryRevision = obj.stable /\ res.out.action \notin Running
             /\ res.out.action \in Running =>
                  /\ obj.stable # NoRevision /\ res.primaryRevision = obj.stable
                  /\ res.out.state.stable = obj.stable
                  /\ res.canaryRevision = obj.target /\ res.out.state.revision = obj.target
                  /\ Room => res.canaryReplicas > 0
             /\ res.out.action \notin Running => res.canaryRevision = NoRevision
             /\ res.out.action \in {"Start", "Advance", "Wait", "Promote"}
                  => res.out.requeue > 0
             /\ res.out.action = "Pause" => Plan.requireApproval
             /\ (res.out.action = "Promote" /\ obj.st.phase = "Paused") =>
                  hist.approvedFor = obj.st.revision \/ Plan.onInconclusive = "Promote"
             /\ (hist.rejected /\ obj.stable \notin {NoRevision, obj.target}) =>
                  /\ res.out.state.failed = obj.target /\ res.out.action \notin Running
                  /\ res.primaryRevision # obj.target
  <1> DEFINE in  == InputOf(obj)
             res == planRollout(in, TRUE, checks, stalled)
  <1>1. TypeInv /\ StatusInv /\ RejectionStands
    BY Zenon DEF CInv
  <1>2. /\ in \in InputType /\ Fallback(in) /\ in.state = obj.st /\ in.target = obj.target
        /\ in.stable = obj.stable /\ in.plan = Plan /\ in.total = Total
        /\ in.approved = ("promote" \in obj.ann)
    BY <1>1, InputTyped, Zenon
  <1> HIDE DEF in
  <1>3. Verdict(in, res)
    BY <1>2, PassVerdict, Zenon
  <1> SUFFICES
        /\ res \in ResultType
        /\ res.primaryRevision \in {obj.stable, obj.target} \ {NoRevision}
        /\ (res.rolledBack \/ res.out.action = "Rollback") =>
             res.primaryRevision = obj.stable /\ res.out.action \notin Running
        /\ res.out.action \in Running =>
             /\ obj.stable # NoRevision /\ res.primaryRevision = obj.stable
             /\ res.out.state.stable = obj.stable
             /\ res.canaryRevision = obj.target /\ res.out.state.revision = obj.target
             /\ Room => res.canaryReplicas > 0
        /\ res.out.action \notin Running => res.canaryRevision = NoRevision
        /\ res.out.action \in {"Start", "Advance", "Wait", "Promote"} => res.out.requeue > 0
        /\ res.out.action = "Pause" => Plan.requireApproval
        /\ (res.out.action = "Promote" /\ obj.st.phase = "Paused") =>
             hist.approvedFor = obj.st.revision \/ Plan.onInconclusive = "Promote"
        /\ (hist.rejected /\ obj.stable \notin {NoRevision, obj.target}) =>
             /\ res.out.state.failed = obj.target /\ res.out.action \notin Running
             /\ res.primaryRevision # obj.target
    BY Zenon DEF in
  <1> HIDE DEF res
  <1>4. /\ res \in ResultType
        /\ res.out.action \in Running =>
             /\ in.stable # NoRevision /\ res.primaryRevision = in.stable
             /\ res.out.state.stable = in.stable
        /\ res.out.action \in {"Start", "Advance", "Wait", "Promote"} => res.out.requeue > 0
    BY <1>3, Zenon DEF Verdict, Planned, Meets, InFlight, Running
  <1>5. /\ res.primaryRevision \in {obj.stable, obj.target} \ {NoRevision}
        /\ (res.rolledBack \/ res.out.action = "Rollback") =>
             res.primaryRevision = obj.stable /\ res.out.action \notin Running
        /\ res.out.action \notin Running => res.canaryRevision = NoRevision
    BY <1>2, <1>3, Zenon DEF Verdict
  <1>6. res.out.action \in Running =>
             /\ res.canaryRevision = obj.target /\ res.out.state.revision = obj.target
             /\ Room => res.canaryReplicas > 0
    BY <1>2, <1>3, Zenon DEF Verdict, Room, Roomy
  <1>7. res.out.action = "Pause" => Plan.requireApproval
    BY <1>1, <1>2, <1>3, Zenon DEF Verdict, StatusInv
  <1>8. (res.out.action = "Promote" /\ obj.st.phase = "Paused") =>
             hist.approvedFor = obj.st.revision \/ Plan.onInconclusive = "Promote"
    BY <1>1, <1>2, <1>3, Zenon DEF Verdict, StatusInv, isActive
  <1>9. (hist.rejected /\ obj.stable \notin {NoRevision, obj.target}) =>
             /\ res.out.state.failed = obj.target /\ res.out.action \notin Running
             /\ res.primaryRevision # obj.target
    BY <1>1, <1>2, <1>3, Zenon DEF Verdict, RejectionStands
  <1>10. QED
    BY <1>2, <1>4, <1>5, <1>6, <1>7, <1>8, <1>9, Zenon

LEMMA ReconcileCInv == CInv /\ Reconcile => CInv'
  <1> SUFFICES ASSUME CInv, Reconcile PROVE CInv'
    BY Zenon
  <1> USE DEF CInv
  <1>1. UNCHANGED <<seen, timer, edits, hist>> /\ pass.at = "idle" /\ wake
    BY Zenon DEF Reconcile
  <1>2. CASE ~obj.valid /\ failTerminally /\ UNCHANGED <<dep, primary, faults>>
    <2>1. obj.st \in StateType /\ "Idle" \in Phases
      BY Zenon DEF TypeInv, Phases
    <2>2. [obj.st EXCEPT !.phase = "Idle"] \in StateType
      BY <2>1, Zenon DEF StateType
    <2>3. /\ obj'.target = obj.target /\ obj'.valid = obj.valid /\ obj'.stable = obj.stable
          /\ obj'.ann = obj.ann /\ obj'.st.phase = "Idle" /\ obj'.st.failed = obj.st.failed
      BY <1>2, <2>1, Zenon DEF failTerminally, TypeInv, StateType
    <2>4. obj' \in [target : Revisions, valid : BOOLEAN, ann : SUBSET Annotations,
                    st : StateType, stable : Revs]
      BY <1>2, <2>2, Zenon DEF failTerminally, TypeInv
    <2>5. pass' = Resting /\ wake' = FALSE
      BY <1>2, Zenon DEF failTerminally
    <2>6. TypeInv'
      BY <1>1, <1>2, <2>4, <2>5, RestingTyped, Zenon DEF TypeInv
    <2>7. StatusInv' /\ QuietInv' /\ PassInv' /\ RejectionStands'
      BY <1>1, <1>2, <2>3, <2>5, RestingTyped, Zenon
         DEF StatusInv, PassInv, QuietInv, RejectionStands, isActive
    <2>8. QED
      BY <2>6, <2>7, Zenon
  <1>3. CASE obj.valid /\ PlanAndApply(InputOf(obj)) /\ UNCHANGED obj
    <2> DEFINE in == InputOf(obj)
               stalled == seen.primary.health = "stalled"
    <2>1. PICK checks \in IF Plan.isCanary /\ RoundDue(in) THEN Rounds ELSE {{}} :
            Carry(planRollout(in, TRUE, checks, stalled), in)
      BY <1>3, Zenon DEF PlanAndApply
    <2>2. checks \in SUBSET Verdicts
      BY ControllerAssumption, Zenon
    <2> DEFINE res == planRollout(in, TRUE, checks, stalled)
    <2> HIDE DEF stalled
    <2>3. /\ res \in ResultType
          /\ res.primaryRevision \in {obj.stable, obj.target} \ {NoRevision}
          /\ (res.rolledBack \/ res.out.action = "Rollback") =>
               res.primaryRevision = obj.stable /\ res.out.action \notin Running
          /\ res.out.action \in Running =>
               /\ obj.stable # NoRevision /\ res.primaryRevision = obj.stable
               /\ res.out.state.stable = obj.stable
               /\ res.canaryRevision = obj.target /\ res.out.state.revision = obj.target
               /\ Room => res.canaryReplicas > 0
          /\ res.out.action \notin Running => res.canaryRevision = NoRevision
          /\ res.out.action \in {"Start", "Advance", "Wait", "Promote"} => res.out.requeue > 0
          /\ res.out.action = "Pause" => Plan.requireApproval
          /\ (res.out.action = "Promote" /\ obj.st.phase = "Paused") =>
               hist.approvedFor = obj.st.revision \/ Plan.onInconclusive = "Promote"
          /\ (hist.rejected /\ obj.stable \notin {NoRevision, obj.target}) =>
               /\ res.out.state.failed = obj.target /\ res.out.action \notin Running
               /\ res.primaryRevision # obj.target
      BY <2>2, PlanNow, Zenon
    <2>4. in.target = obj.target /\ in.stable = obj.stable
      BY InputTyped, Zenon
    <2> HIDE DEF res, in
    <2>5. Carry(res, in)
      BY <2>1, Zenon DEF res
    <2>6. primary' \in PrimaryType /\ primary'.revision = res.primaryRevision
      BY <2>3, <2>5, ApplyPrimaryEffect, Zenon DEF Carry
    <2>7. obj' = obj /\ obj.target \in Revisions
      BY <1>3, Zenon DEF TypeInv
    <2>8. StatusInv' /\ RejectionStands'
      BY <1>1, <2>3, <2>6, <2>7, Zenon DEF StatusInv, RejectionStands
    <2>9. CASE ApplyCanary(res) /\ wake' = FALSE /\
               pass' = [at |-> IF obj.ann = {} THEN "cleared" ELSE "applied", fresh |-> TRUE,
                        res |-> res, md |-> [target |-> in.target, ann |-> obj.ann,
                                             stable |-> in.stable]]
      <3>1. /\ dep' \in DeploymentType
            /\ dep'.uid # NoUID <=> res.canaryRevision # NoRevision /\ res.canaryReplicas # 0
            /\ dep'.uid # NoUID => dep'.revision = res.canaryRevision
        BY <2>3, <2>9, ApplyCanaryEffect, Zenon
      <3>2. /\ pass'.at = (IF obj.ann = {} THEN "cleared" ELSE "applied") /\ pass'.fresh
            /\ pass'.res = res /\ pass'.md.target = obj.target /\ pass'.md.stable = obj.stable
        BY <2>4, <2>9, Zenon
      <3>3. TypeInv'
        <4>1. pass' \in [at : {"idle", "applied", "cleared"}, fresh : BOOLEAN, res : ResultType,
                         md : [target : Revs, ann : SUBSET Annotations, stable : Revs]]
          BY <2>3, <2>4, <2>9, Zenon DEF TypeInv, Revs
        <4>2. QED
          BY <1>1, <2>6, <2>7, <2>9, <3>1, <4>1, Zenon DEF TypeInv
      <3>4. PassInv'
        <4>1. PlanHolds'
          BY <1>1, <2>3, <2>7, <3>2, Zenon DEF PlanHolds
        <4>2. QED
          BY <2>6, <2>7, <3>1, <3>2, <4>1, Zenon DEF PassInv
      <3>5. QuietInv'
        BY <3>2, Zenon DEF QuietInv
      <3>6. QED
        BY <2>8, <3>3, <3>4, <3>5, Zenon
    <2>10. CASE pass' = Resting /\ wake' = TRUE /\ UNCHANGED dep
      <3>1. TypeInv'
        BY <1>1, <2>6, <2>7, <2>10, RestingTyped, Zenon DEF TypeInv
      <3>2. PassInv' /\ QuietInv'
        BY <2>10, RestingTyped, Zenon DEF PassInv, QuietInv
      <3>3. QED
        BY <2>8, <3>1, <3>2, Zenon
    <2>11. QED
      BY <2>5, <2>9, <2>10, Zenon DEF Carry
  <1>4. QED
    BY <1>2, <1>3, Zenon DEF Reconcile

LEMMA UpdateCInv == CInv /\ updateStatus(pass.res) => CInv'
  <1> SUFFICES ASSUME CInv, updateStatus(pass.res) PROVE CInv'
    BY Zenon
  <1> DEFINE res == pass.res
             bank == Bank(res, pass.md, seen.primary, seen.dep)
  <1>1. TypeInv /\ StatusInv /\ PassInv /\ QuietInv /\ RejectionStands
    BY Zenon DEF CInv
  <1>2. pass.at = "cleared" /\ pass' = Resting
        /\ UNCHANGED <<dep, primary, seen, edits, faults>>
    BY Zenon DEF updateStatus
  <1>3. PassInv' /\ pass'.at = "idle"
    BY <1>2, RestingTyped, Zenon DEF PassInv
  <1>4. CASE ~pass.fresh
    <2>1. wake' = TRUE /\ UNCHANGED <<obj, timer, hist>>
      BY <1>4, Zenon DEF updateStatus
    <2>2. TypeInv'
      BY <1>1, <1>2, <2>1, RestingTyped, Zenon DEF TypeInv
    <2>3. StatusInv' /\ RejectionStands' /\ QuietInv'
      BY <1>1, <1>2, <2>1, Zenon DEF StatusInv, RejectionStands, QuietInv
    <2>4. QED
      BY <1>3, <2>2, <2>3, Zenon DEF CInv
  <1>5. CASE pass.fresh
    <2>1. /\ obj' = [obj EXCEPT !.st = Persisted(res.out), !.stable = bank]
          /\ hist' = [hist EXCEPT !.rejected = @ \/ Rejects(res)]
          /\ timer' = (timer \/ res.out.requeue > 0) /\ wake' = wake
      BY <1>5, Zenon DEF updateStatus
    <2>2. /\ pass.md.stable = obj.stable /\ PlanHolds /\ primary.revision = res.primaryRevision
          /\ dep.uid # NoUID <=> res.canaryRevision # NoRevision /\ res.canaryReplicas # 0
          /\ dep.uid # NoUID => dep.revision = res.canaryRevision
          /\ obj.ann = {}
          /\ ~wake => pass.md.target = obj.target
      BY <1>1, <1>2, <1>5, Zenon DEF PassInv
    <2>3. res \in ResultType /\ res.out \in OutputType /\ res.out.action \in Actions
          /\ res.primaryRevision \in Revs /\ res.canaryReplicas \in Nat
      BY <1>1, Zenon DEF TypeInv, ResultType, OutputType
    <2>4. bank \in {res.primaryRevision, obj.stable}
      BY <2>2, Zenon DEF Bank
    <2>5. /\ Persisted(res.out) \in StateType
          /\ Persisted(res.out).phase = PhaseFrom(res.out.action)
          /\ Persisted(res.out).stable = res.out.state.stable
          /\ Persisted(res.out).revision = res.out.state.revision
          /\ Persisted(res.out).failed = res.out.state.failed
          /\ isActive(Persisted(res.out).phase) <=> res.out.action \in Running
          /\ Persisted(res.out).phase \in {"Progressing", "Promoting"}
               => res.out.action \in {"Start", "Advance", "Wait", "Promote"}
      BY <2>3, PersistedTyped, Zenon DEF Running
    <2>6. PhaseFrom(res.out.action) = "Paused" => res.out.action = "Pause"
      BY <2>3, Zenon DEF PhaseFrom, Actions
    <2> HIDE DEF bank
    <2>7. /\ obj'.target = obj.target /\ obj'.valid = obj.valid /\ obj'.ann = obj.ann
          /\ obj'.st = Persisted(res.out) /\ obj'.stable = bank
          /\ hist'.approvedFor = hist.approvedFor
          /\ hist'.rejected = (hist.rejected \/ Rejects(res))
          /\ obj' \in [target : Revisions, valid : BOOLEAN, ann : SUBSET Annotations,
                        st : StateType, stable : Revs]
      BY <1>1, <2>1, <2>3, <2>4, <2>5, Zenon DEF TypeInv
    <2>8. hist' \in [approvedFor : Revs, rejected : BOOLEAN] /\ obj.target \in Revisions
      BY <1>1, <2>1, Zenon DEF TypeInv, Rejects
    <2>9. timer' \in BOOLEAN
      BY <2>1, Zenon
    <2>10. TypeInv'
      BY <1>1, <1>2, <2>1, <2>7, <2>8, <2>9, RestingTyped, Zenon DEF TypeInv
    <2>11. StatusInv'
      BY <2>2, <2>4, <2>5, <2>6, <2>7 DEF StatusInv, PlanHolds
    <2>12. QuietInv'
      <3> SUFFICES ASSUME ~wake PROVE Done'
        BY <2>1, Zenon DEF QuietInv
      <3>1. pass.md.target = obj.target /\ obj.target # NoRevision
        BY <2>2, <2>8, NameAssumption, Zenon
      <3>2. dep.uid # NoUID => isActive(obj'.st.phase) /\ dep.revision = obj'.st.revision
        BY <2>2, <2>5, <2>7 DEF PlanHolds
      <3>3. isActive(obj'.st.phase) => /\ Room => dep.uid # NoUID
                                      /\ obj'.st.revision = obj.target
                                      /\ primary.revision = obj'.stable
        BY <2>2, <2>3, <2>4, <2>5, <2>7, <3>1 DEF PlanHolds
      <3>4. obj'.st.phase \in {"Progressing", "Promoting"} => timer'
        BY <2>1, <2>2, <2>5, <2>7, Zenon DEF PlanHolds
      <3>5. QED
        BY <1>2, <2>7, <3>2, <3>3, <3>4, Zenon DEF Done, Room
    <2>13. RejectionStands'
      <3> SUFFICES ASSUME hist'.rejected, bank \notin {NoRevision, obj.target}
                   PROVE  /\ res.out.state.failed = obj.target /\ res.out.action \notin Running
                          /\ res.primaryRevision # obj.target
        BY <1>2, <2>2, <2>5, <2>7, Zenon DEF RejectionStands
      <3>1. CASE hist.rejected
        BY <1>1, <2>2, <2>4, <3>1, Zenon DEF PlanHolds, RejectionStands
      <3>2. CASE Rejects(res)
        BY <2>2, <2>4, <3>2, Zenon DEF PlanHolds, Rejects
      <3>3. QED
        BY <2>7, <3>1, <3>2, Zenon
    <2>14. QED
      BY <1>3, <2>10, <2>11, <2>12, <2>13, Zenon DEF CInv
  <1>6. QED
    BY <1>1, <1>4, <1>5, Zenon DEF TypeInv

LEMMA ClearCInv == CInv /\ ClearAnnotations => CInv'
  <1> SUFFICES ASSUME CInv, ClearAnnotations PROVE CInv'
    BY Zenon
  <1>1. TypeInv /\ StatusInv /\ PassInv /\ QuietInv /\ RejectionStands
    BY Zenon DEF CInv
  <1>2. /\ pass.at = "applied" /\ wake' = TRUE /\ obj' = [obj EXCEPT !.ann = {}]
        /\ pass' = [pass EXCEPT !.at = "cleared", !.fresh = TRUE]
        /\ UNCHANGED <<dep, primary, seen, timer, edits, faults, hist>>
    BY Zenon DEF ClearAnnotations, clearRolloutAnnotations
  <1>3. /\ obj'.target = obj.target /\ obj'.valid = obj.valid /\ obj'.ann = {}
        /\ obj'.st = obj.st /\ obj'.stable = obj.stable
        /\ pass'.at = "cleared" /\ pass'.res = pass.res /\ pass'.md = pass.md
    BY <1>1, <1>2, Zenon DEF TypeInv
  <1>4. TypeInv'
    BY <1>1, <1>2, Zenon DEF TypeInv
  <1>5. PlanHolds'
    BY <1>1, <1>2, <1>3 DEF PassInv, PlanHolds, Room
  <1>6. StatusInv' /\ PassInv' /\ QuietInv' /\ RejectionStands'
    BY <1>1, <1>2, <1>3, <1>5 DEF StatusInv, PassInv, QuietInv, RejectionStands
  <1>7. QED
    BY <1>4, <1>6, Zenon DEF CInv

-----------------------------------------------------------------------------
(* Everyone else. *)

LEMMA InterveneCInv ==
  CInv /\ (\/ \E r \in Revisions : EditSpec(r)
          \/ BreakSpec \/ RepairSpec
          \/ \E a \in {"promote", "abort"} : Annotate(a)) => CInv'
  <1> SUFFICES ASSUME CInv, \/ \E r \in Revisions : EditSpec(r)
                            \/ BreakSpec \/ RepairSpec
                            \/ \E a \in {"promote", "abort"} : Annotate(a)
               PROVE  CInv'
    BY Zenon
  <1>1. TypeInv /\ StatusInv /\ PassInv /\ QuietInv /\ RejectionStands
    BY Zenon DEF CInv
  <1>2. /\ wake' = TRUE /\ pass' = [pass EXCEPT !.fresh = FALSE]
        /\ UNCHANGED <<dep, primary, seen, timer, faults>>
    BY Zenon DEF EditSpec, BreakSpec, RepairSpec, Annotate, Intervene
  <1>3. /\ pass'.at = pass.at /\ pass'.res = pass.res /\ pass'.md = pass.md /\ ~pass'.fresh
    BY <1>1, <1>2, Zenon DEF TypeInv
  <1>4. obj'.st = obj.st /\ obj'.stable = obj.stable
    <2>1. \/ \E r \in Revisions : obj' = [obj EXCEPT !.target = r, !.valid = TRUE]
          \/ \E b \in BOOLEAN : obj' = [obj EXCEPT !.valid = b]
          \/ \E a \in {"promote", "abort"} : obj' = [obj EXCEPT !.ann = @ \cup {a}]
      BY Zenon DEF EditSpec, BreakSpec, RepairSpec, Annotate
    <2>2. QED
      BY <1>1, <2>1, ZenonT(30) DEF TypeInv
  <1>5. /\ obj' \in [target : Revisions, valid : BOOLEAN, ann : SUBSET Annotations,
                      st : StateType, stable : Revs]
        /\ hist' \in [approvedFor : Revs, rejected : BOOLEAN]
        /\ obj.st.phase = "Paused" =>
             /\ "promote" \in obj'.ann => hist'.approvedFor = obj.st.revision
             /\ hist.approvedFor = obj.st.revision => hist'.approvedFor = obj.st.revision
    <2>1. obj.st.revision \in Revs /\ NoRevision \in Revs
      BY <1>1, Zenon DEF TypeInv, StateType, Revs
    <2>2. CASE (\E r \in Revisions : EditSpec(r)) \/ BreakSpec \/ RepairSpec
      <3>1. obj'.ann = obj.ann /\ hist'.approvedFor = hist.approvedFor
        BY <1>1, <2>2, Zenon DEF EditSpec, BreakSpec, RepairSpec, TypeInv
      <3>2. /\ obj' \in [target : Revisions, valid : BOOLEAN, ann : SUBSET Annotations,
                          st : StateType, stable : Revs]
            /\ hist' \in [approvedFor : Revs, rejected : BOOLEAN]
        <4>1. CASE \E r \in Revisions : EditSpec(r)
          BY <1>1, <4>1, ZenonT(60) DEF EditSpec, TypeInv
        <4>2. CASE BreakSpec
          BY <1>1, <4>2, Zenon DEF BreakSpec, TypeInv
        <4>3. CASE RepairSpec
          BY <1>1, <4>3, Zenon DEF RepairSpec, TypeInv
        <4>4. QED
          BY <2>2, <4>1, <4>2, <4>3, Zenon
      <3>3. QED
        BY <1>1, <3>1, <3>2, Zenon DEF StatusInv
    <2>3. ASSUME NEW a \in {"promote", "abort"}, Annotate(a)
          PROVE  <1>5!1 /\ <1>5!2 /\ <1>5!3
      <3> DEFINE to == IF a # "promote" THEN hist.approvedFor
                       ELSE IF obj.st.phase = "Paused" THEN obj.st.revision ELSE NoRevision
      <3>1. obj' = [obj EXCEPT !.ann = obj.ann \cup {a}]
            /\ hist' = [hist EXCEPT !.approvedFor = to]
        BY <1>1, <2>3, Zenon DEF Annotate
      <3>2. to \in Revs /\ obj.ann \cup {a} \in SUBSET Annotations
        BY <1>1, <2>1, Zenon DEF TypeInv, Annotations
      <3>3. obj'.ann = obj.ann \cup {a} /\ hist'.approvedFor = to
        BY <1>1, <3>1, Zenon DEF TypeInv
      <3>4. obj.st.phase = "Paused" =>
              /\ "promote" \in obj.ann \cup {a} => to = obj.st.revision
              /\ hist.approvedFor = obj.st.revision => to = obj.st.revision
        BY <1>1, Zenon DEF StatusInv
      <3> HIDE DEF to
      <3>5. QED
        BY <1>1, <3>1, <3>2, <3>3, <3>4, Zenon DEF TypeInv
    <2>4. QED
      BY <2>2, <2>3, Zenon
  <1>6. TypeInv'
    BY <1>1, <1>2, <1>5, Zenon DEF TypeInv
  <1>7. hist'.rejected => hist.rejected /\ obj'.target = obj.target
    BY <1>1, Zenon DEF EditSpec, BreakSpec, RepairSpec, Annotate, TypeInv
  <1>8. ASSUME pass.at # "idle" PROVE PlanHolds'
    BY <1>1, <1>3, <1>4, <1>5, <1>7, <1>8 DEF PassInv, PlanHolds, Room
  <1>9. PassInv'
    BY <1>1, <1>2, <1>3, <1>4, <1>8, Zenon DEF PassInv
  <1>10. StatusInv' /\ RejectionStands' /\ QuietInv'
    BY <1>1, <1>2, <1>4, <1>5, <1>7, Zenon DEF StatusInv, RejectionStands, QuietInv
  <1>11. QED
    BY <1>6, <1>9, <1>10, Zenon DEF CInv

LEMMA ClusterCInv ==
  CInv /\ (CanarySettles \/ PrimaryMoves \/ WorkloadFails \/ CacheCatchesUp) => CInv'
  <1> SUFFICES ASSUME CInv, CanarySettles \/ PrimaryMoves \/ WorkloadFails \/ CacheCatchesUp
               PROVE  CInv'
    BY Zenon
  <1>1. TypeInv /\ StatusInv /\ PassInv /\ QuietInv /\ RejectionStands
    BY Zenon DEF CInv
  <1>2. UNCHANGED <<obj, pass, timer, edits, hist>> /\ (wake' = wake \/ wake' = TRUE)
    BY Zenon DEF CanarySettles, PrimaryMoves, WorkloadFails, CacheCatchesUp
  <1>3. /\ dep' \in DeploymentType /\ dep'.uid = dep.uid /\ dep'.revision = dep.revision
    <2>1. dep \in DeploymentType
      BY <1>1, Zenon DEF TypeInv
    <2>2. dep' = dep \/ \E b \in BOOLEAN : dep' = [dep EXCEPT !.settled = b]
      BY Zenon DEF CanarySettles, PrimaryMoves, WorkloadFails, CacheCatchesUp
    <2>3. QED
      BY <2>1, <2>2, Zenon DEF DeploymentType
  <1>4. primary' \in PrimaryType /\ primary'.revision = primary.revision
    <2>1. primary \in PrimaryType
      BY <1>1, Zenon DEF TypeInv
    <2>2. \/ primary' = primary
          \/ primary' = [primary EXCEPT !.synced = TRUE, !.health = "rolling"]
          \/ \E h \in {"converged", "stalled"} : primary' = [primary EXCEPT !.health = h]
      BY Zenon DEF CanarySettles, PrimaryMoves, WorkloadFails, CacheCatchesUp
    <2>3. QED
      BY <2>1, <2>2, Zenon DEF PrimaryType
  <1>5. seen' \in [dep : DeploymentType, primary : PrimaryType]
    BY <1>1 DEF CanarySettles, PrimaryMoves, WorkloadFails, CacheCatchesUp, TypeInv, Current
  <1>6. TypeInv'
    BY <1>1, <1>2, <1>3, <1>4, <1>5, Zenon DEF TypeInv
  <1>7. StatusInv' /\ RejectionStands'
    BY <1>1, <1>2, <1>4, Zenon DEF StatusInv, RejectionStands
  <1>8. PassInv'
    BY <1>1, <1>2, <1>3, <1>4, Zenon DEF PassInv, PlanHolds, Room
  <1>9. QuietInv'
    BY <1>1, <1>2, <1>3, <1>4, Zenon DEF QuietInv, Done, Room
  <1>10. QED
    BY <1>6, <1>7, <1>8, <1>9, Zenon DEF CInv

LEMMA EndsAndElapsesCInv == CInv /\ (PassEnds \/ Elapse) => CInv'
  <1> SUFFICES ASSUME CInv, PassEnds \/ Elapse PROVE CInv'
    BY Zenon
  <1>1. TypeInv /\ StatusInv /\ PassInv /\ QuietInv /\ RejectionStands
    BY Zenon DEF CInv
  <1>2. UNCHANGED <<dep, primary, seen, edits, hist>> /\ wake' = TRUE
    BY Zenon DEF PassEnds, Elapse
  <1>3. /\ pass' \in [at : {"idle", "applied", "cleared"}, fresh : BOOLEAN, res : ResultType,
                       md : [target : Revs, ann : SUBSET Annotations, stable : Revs]]
        /\ pass'.at = "idle" /\ timer' \in BOOLEAN
    BY <1>1, RestingTyped, Zenon DEF PassEnds, Elapse, TypeInv
  <1>4. /\ obj' \in [target : Revisions, valid : BOOLEAN, ann : SUBSET Annotations,
                      st : StateType, stable : Revs]
        /\ obj'.target = obj.target /\ obj'.stable = obj.stable /\ obj'.ann = obj.ann
        /\ obj'.st.phase = obj.st.phase /\ obj'.st.stable = obj.st.stable
        /\ obj'.st.revision = obj.st.revision /\ obj'.st.failed = obj.st.failed
    <2>1. CASE PassEnds
      BY <1>1, <2>1, Zenon DEF PassEnds, TypeInv
    <2>2. CASE Elapse
      <3> DEFINE age == IF obj.st.lastAnalysis = NoTime THEN NoTime ELSE Plan.interval
                 t   == [obj.st EXCEPT !.lastAnalysis = age]
      <3>1. obj.st \in StateType /\ age \in Ages
        BY <1>1, ControllerAssumption, Zenon DEF TypeInv, PlanType, Ages
      <3>2. obj' = [obj EXCEPT !.st = t]
        BY <1>1, <2>2, Zenon DEF Elapse, TypeInv, StateType
      <3> HIDE DEF age
      <3>3. /\ t \in StateType /\ t.phase = obj.st.phase /\ t.stable = obj.st.stable
            /\ t.revision = obj.st.revision /\ t.failed = obj.st.failed
        BY <3>1, Zenon DEF StateType
      <3> HIDE DEF t
      <3>4. QED
        BY <1>1, <3>2, <3>3, Zenon DEF TypeInv
    <2>3. QED
      BY <2>1, <2>2, Zenon
  <1>5. TypeInv'
    BY <1>1, <1>2, <1>3, <1>4, Zenon DEF TypeInv
  <1>6. StatusInv' /\ RejectionStands' /\ PassInv' /\ QuietInv'
    BY <1>1, <1>2, <1>3, <1>4, Zenon DEF StatusInv, RejectionStands, PassInv, QuietInv
  <1>7. QED
    BY <1>5, <1>6, Zenon DEF CInv

LEMMA CInvInductive == Spec => []CInv
  <1>1. Init => CInv
    <2> SUFFICES ASSUME Init PROVE CInv
      BY Zenon
    <2>1. PICK good \in Revisions, r \in Revisions :
            /\ r # good
            /\ obj = [target |-> r, valid |-> TRUE, ann |-> {}, st |-> EmptyState, stable |-> good]
            /\ primary = Complete(good)
            /\ seen = [dep |-> NoDeployment, primary |-> Complete(good)]
      BY Zenon DEF Init
    <2>2. /\ dep = NoDeployment /\ hist = [approvedFor |-> NoRevision, rejected |-> FALSE]
          /\ pass = Resting /\ wake = TRUE /\ timer = FALSE
      BY Zenon DEF Init
    <2>3. EmptyState \in StateType /\ EmptyState.phase = "Idle"
      BY NameAssumption, Zenon DEF EmptyState, NoReadiness, StateType, ReadinessType, Phases, Ages,
         Revs, AnyUID, AnyGeneration, NoTime
    <2>4. NoDeployment \in DeploymentType /\ Complete(good) \in PrimaryType
      BY ControllerAssumption, Zenon DEF NoDeployment, DeploymentType, AnyUID, Revs, AnyGeneration,
         Complete, PrimaryType
    <2> HIDE DEF EmptyState, NoDeployment, Complete
    <2>5. TypeInv
      BY <2>1, <2>2, <2>3, <2>4, RestingTyped, Zenon DEF TypeInv, Revs
    <2>6. StatusInv /\ PassInv /\ QuietInv /\ RejectionStands
      BY <2>1, <2>2, <2>3, RestingTyped, Zenon
         DEF StatusInv, PassInv, QuietInv, RejectionStands, isActive
    <2>7. QED
      BY <2>5, <2>6, Zenon DEF CInv
  <1>2. CInv /\ [Next]_vars => CInv'
    <2> SUFFICES ASSUME CInv, [Next]_vars PROVE CInv'
      BY Zenon
    <2>1. CASE UNCHANGED vars
      BY <2>1 DEF vars, CInv, TypeInv, StatusInv, PassInv, PlanHolds, QuietInv, Done, Room,
                  RejectionStands
    <2>2. CASE Next
      BY <2>2, ReconcileCInv, UpdateCInv, ClearCInv, InterveneCInv, ClusterCInv,
         EndsAndElapsesCInv, Zenon DEF Next
    <2>3. QED
      BY <2>1, <2>2, Zenon
  <1>3. QED
    BY <1>1, <1>2, PTL DEF Spec

-----------------------------------------------------------------------------
(* The theorems. *)

(* A rejection that status has recorded stands until the target is edited  *)
(* (begin, holdRejectedRevision, failTerminally): for every plan, and with *)
(* any number of failed calls, crashes, stale reads and annotations        *)
(* between any two calls of the controller.                                *)
THEOREM RejectionStandsAlways == Spec => []RejectionStands
  <1>1. CInv => RejectionStands
    BY Zenon DEF CInv
  <1>2. QED
    BY <1>1, CInvInductive, PTL

(* A controller with nothing queued and an up-to-date cache has done what  *)
(* status says (applyChildren, deleteCanaryDeployment, updateStatus and    *)
(* its RequeueAfter), whichever calls failed before: for every plan and    *)
(* replica count.                                                          *)
THEOREM QuietIsDone == Spec => []QuietMeansDone
  <1>1. CInv => QuietMeansDone
    BY Zenon DEF CInv, QuietInv, Done, QuietMeansDone, Quiet
  <1>2. QED
    BY <1>1, CInvInductive, PTL

(* A paused canary is promoted by an approval given to it and to no        *)
(* earlier release (clearRolloutAnnotations before updateStatus), for      *)
(* every plan that does not promote on inconclusive evidence.              *)
THEOREM ApprovalNotReused == Spec => ApprovalIsForThisRelease
  <1> DEFINE A == (obj.st.phase = "Paused" /\ obj'.st.phase = "Promoting")
                    => \/ hist.approvedFor = obj.st.revision
                       \/ Plan.onInconclusive = "Promote"
  <1>1. CInv /\ [Next]_vars => [A]_vars
    <2> SUFFICES ASSUME CInv, Next, obj.st.phase = "Paused", obj'.st.phase = "Promoting"
                 PROVE  \/ hist.approvedFor = obj.st.revision
                        \/ Plan.onInconclusive = "Promote"
      BY Zenon DEF vars
    <2>1. TypeInv /\ PassInv
      BY Zenon DEF CInv
    <2>2. CASE updateStatus(pass.res)
      <3>1. pass.at = "cleared" /\ pass.fresh
        BY <2>2, Zenon DEF updateStatus
      <3>2. obj'.st = Persisted(pass.res.out)
        BY <2>1, <2>2, <3>1, Zenon DEF updateStatus, TypeInv
      <3>3. pass.res.out \in OutputType /\ pass.res.out.action \in Actions
        BY <2>1, Zenon DEF TypeInv, ResultType, OutputType
      <3>4. PhaseFrom(pass.res.out.action) = "Promoting"
        BY <3>2, <3>3, PersistedTyped, Zenon
      <3>5. pass.res.out.action = "Promote"
        BY <3>3, <3>4, Zenon DEF PhaseFrom, Actions
      <3>6. QED
        BY <2>1, <3>1, <3>5, Zenon DEF PassInv, PlanHolds
    <2>3. CASE ~updateStatus(pass.res)
      <3>1. obj'.st.phase \in {obj.st.phase, "Idle"}
        <4>1. obj.st \in StateType
          BY <2>1, Zenon DEF TypeInv
        <4>2. CASE Reconcile
          BY <2>1, <4>1, <4>2 DEF Reconcile, failTerminally, TypeInv, StateType
        <4>3. CASE Elapse
          BY <2>1, <4>1, <4>3, Zenon DEF Elapse, TypeInv, StateType
        <4>4. CASE ClearAnnotations
          BY <2>1, <4>4, Zenon DEF ClearAnnotations, clearRolloutAnnotations, TypeInv
        <4>5. CASE (\E r \in Revisions : EditSpec(r)) \/ BreakSpec \/ RepairSpec
          BY <2>1, <4>5, Zenon DEF EditSpec, BreakSpec, RepairSpec, TypeInv
        <4>6. CASE \E a \in {"promote", "abort"} : Annotate(a)
          BY <2>1, <4>6, Zenon DEF Annotate, TypeInv
        <4>7. CASE \/ PassEnds \/ CanarySettles \/ PrimaryMoves \/ WorkloadFails
                   \/ CacheCatchesUp
          BY <4>7, Zenon DEF PassEnds, CanarySettles, PrimaryMoves, WorkloadFails, CacheCatchesUp
        <4>8. QED
          BY <2>3, <4>2, <4>3, <4>4, <4>5, <4>6, <4>7, Zenon DEF Next
      <3>2. QED
        BY <3>1, Zenon
    <2>4. QED
      BY <2>2, <2>3, Zenon
  <1>2. QED
    BY <1>1, CInvInductive, PTL DEF Spec, ApprovalIsForThisRelease
=============================================================================
