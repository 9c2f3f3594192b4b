-------------------------------- MODULE Status ---------------------------------
(***************************************************************************)
(* A RollingUpdate, pod by pod, and the status the controller derives from *)
(* it: planRollout without a canary (internal/controller/canary.go) and    *)
(* computeStatus (internal/controller/status.go).                          *)
(*                                                                         *)
(* The Deployment controller replaces pods one by one and reports what it  *)
(* sees some time later; it raises ProgressDeadlineExceeded while a        *)
(* rollout is incomplete, and drops it at a later report.  Pods of a       *)
(* broken revision never become ready.  A pass is one step and reads what  *)
(* it has just applied; module Controller does without that assumption.    *)
(***************************************************************************)
EXTENDS Integers, FiniteSetsExt

CONSTANTS Revs, Broken,  \* the revisions a spec may ask for; those that do not serve
          None,
          MaxReplicas,   \* bound: spec.replicas
          MaxChanges     \* bound: edits of the spec

VARIABLES
  spec,    \* the target revision, the replicas, autoRollback
  dep,     \* the Deployment: its template, size, pods and reported status
  status,  \* status of the ModelDeployment
  served,  \* history: the revisions that once were the whole fleet, ready
  changes

vars == <<spec, dep, status, served, changes>>

NoPods == [r \in Revs |-> [all |-> 0, ready |-> 0]]
NoReport == [replicas |-> 0, updated |-> 0, ready |-> 0]
NoStatus ==
  [phase |-> "", available |-> "Unknown", progressing |-> "Unknown",
   modelReady |-> "Unknown", ready |-> "Unknown", lastGood |-> None, failed |-> None]

Init ==
  /\ spec \in [rev : Revs, replicas : 1..MaxReplicas, auto : BOOLEAN]
  /\ dep = None
  /\ status = NoStatus
  /\ served = {} /\ changes = 0

-----------------------------------------------------------------------------
(* planRollout without a canary.                                           *)

held == status.failed = spec.rev /\ status.lastGood \notin {None, spec.rev}

stallReverts ==
  /\ ~held /\ spec.auto /\ dep # None /\ dep.stalled
  /\ status.lastGood \notin {None, spec.rev}

planRollout ==
  [primary    |-> IF held \/ stallReverts THEN status.lastGood ELSE spec.rev,
   rolledBack |-> held \/ stallReverts,
   failed     |-> IF held \/ stallReverts THEN spec.rev ELSE None]

(* The Deployment after the apply: its generation moves if it changed.     *)
applied(plan) ==
  IF dep = None
  THEN [rev |-> plan.primary, size |-> spec.replicas, seen |-> FALSE, stalled |-> FALSE,
        pods |-> NoPods, report |-> NoReport]
  ELSE [dep EXCEPT !.rev = plan.primary, !.size = spec.replicas,
                   !.seen = @ /\ dep.rev = plan.primary /\ dep.size = spec.replicas]

-----------------------------------------------------------------------------
(* computeStatus.                                                          *)

setAvailable(d) ==
  IF spec.replicas = 0 THEN TRUE ELSE d.report.ready > 0

converged(d, updated) ==
  /\ updated = spec.replicas /\ d.report.replicas = spec.replicas
  /\ d.report.ready = spec.replicas /\ d.seen

setProgressing(d, plan) ==
  IF d.stalled THEN "ProgressDeadlineExceeded"
  ELSE IF plan.rolledBack
  THEN IF converged(d, d.report.updated) THEN "RevisionRejected" ELSE "RolloutInProgress"
  ELSE IF converged(d, d.report.updated) THEN "RolloutComplete" ELSE "RolloutInProgress"

setModelReady(available, progressing) ==
  IF available THEN "True" ELSE IF progressing THEN "ModelLoading" ELSE "EngineUnhealthy"

setReady(available, progressing) ==
  IF available /\ ~progressing THEN "True"
  ELSE IF progressing THEN "RolloutInProgress" ELSE "MinimumReplicasUnavailable"

(* A mutant: the stall is not told from the end of a rollout.              *)
banksAnyhow(available, progressing, stalled) == available /\ ~progressing

banks(available, progressing, stalled) == available /\ ~progressing /\ ~stalled

derivePhase(available, progressing, stalled, lastGood) ==
  IF stalled THEN "Degraded"
  ELSE IF available /\ ~progressing THEN "Available"
  ELSE IF lastGood = None /\ ~available THEN "Pending"
  ELSE IF progressing THEN "Progressing" ELSE "Degraded"

computeStatus(d, plan) ==
  LET reason      == setProgressing(d, plan)
      progressing == reason = "RolloutInProgress"
      stalled     == reason = "ProgressDeadlineExceeded"
      available   == setAvailable(d)
      lastGood    == IF banks(available, progressing, stalled) THEN plan.primary
                     ELSE status.lastGood
  IN  [phase       |-> derivePhase(available, progressing, stalled, lastGood),
       available   |-> IF available THEN "True" ELSE "False",
       progressing |-> reason,
       modelReady  |-> setModelReady(available, progressing),
       ready       |-> setReady(available, progressing),
       lastGood    |-> lastGood,
       failed      |-> plan.failed]

(* The revision, if any, all of a Deployment's pods run and serve.         *)
Whole(d) ==
  { r \in Revs : d.size > 0 /\ d.pods[r].ready = d.size
                 /\ \A o \in Revs \ {r} : d.pods[o].all = 0 }

Reconcile ==
  LET plan == planRollout
  IN  /\ dep' = applied(plan)
      /\ status' = computeStatus(dep', plan)
      /\ served' = served \cup Whole(dep')
      /\ UNCHANGED <<spec, changes>>

-----------------------------------------------------------------------------
(* The Deployment controller, the pods and the user.                       *)

Total(f) == MapThenSumSet(LAMBDA r : dep.pods[r][f], Revs)

Pods(new) ==
  /\ dep' = [dep EXCEPT !.pods = new]
  /\ served' = served \cup Whole(dep')
  /\ UNCHANGED <<spec, status, changes>>

(* A new pod, one above the size at most.                                  *)
Surge ==
  /\ dep # None /\ Total("all") <= dep.size /\ dep.pods[dep.rev].all < dep.size
  /\ Pods([dep.pods EXCEPT ![dep.rev].all = @ + 1])

Serve(r) ==
  /\ dep # None /\ r \notin Broken /\ dep.pods[r].ready < dep.pods[r].all
  /\ Pods([dep.pods EXCEPT ![r].ready = @ + 1])

(* An outdated or surplus pod goes, if it is not ready or not needed.      *)
Retire(r) ==
  /\ dep # None /\ dep.pods[r].all > (IF r = dep.rev THEN dep.size ELSE 0)
  /\ \/ /\ dep.pods[r].ready < dep.pods[r].all
        /\ Pods([dep.pods EXCEPT ![r].all = @ - 1])
     \/ /\ dep.pods[r].ready > 0 /\ Total("ready") > dep.size
        /\ Pods([dep.pods EXCEPT ![r].all = @ - 1, ![r].ready = @ - 1])

Crash(r) ==
  /\ dep # None /\ dep.pods[r].ready > 0 /\ changes < MaxChanges
  /\ dep' = [dep EXCEPT !.pods[r].ready = @ - 1]
  /\ changes' = changes + 1
  /\ UNCHANGED <<spec, status, served>>

Counted == [replicas |-> Total("all"), updated |-> dep.pods[dep.rev].all, ready |-> Total("ready")]

Complete == Counted = [replicas |-> dep.size, updated |-> dep.size, ready |-> dep.size]

Report ==
  /\ dep # None
  /\ dep' = [dep EXCEPT !.report = Counted, !.seen = TRUE,
                        !.stalled = @ /\ dep.seen /\ ~Complete]
  /\ UNCHANGED <<spec, status, served, changes>>

MissDeadline ==
  /\ dep # None /\ dep.seen /\ ~Complete /\ dep.report = Counted
  /\ dep' = [dep EXCEPT !.stalled = TRUE]
  /\ UNCHANGED <<spec, status, served, changes>>

Change ==
  /\ changes < MaxChanges /\ changes' = changes + 1
  /\ spec' \in [rev : Revs, replicas : 0..MaxReplicas, auto : BOOLEAN] \ {spec}
  /\ UNCHANGED <<dep, status, served>>

Next ==
  \/ Reconcile \/ Surge \/ Report \/ MissDeadline \/ Change
  \/ \E r \in Revs : Serve(r) \/ Retire(r) \/ Crash(r)

Spec == Init /\ [][Next]_vars

-----------------------------------------------------------------------------
(* Properties *)

(* "Only a revision that actually reached availability is a safe rollback  *)
(* target" (status.go:165): unless the fleet is empty, a revision is       *)
(* recorded as last known-good only once it has been the whole fleet, and  *)
(* ready, although old pods may serve on while a rollout is stalled.       *)
BankedServed ==
  [][status'.lastGood # status.lastGood /\ spec.replicas > 0 => status'.lastGood \in served]_vars

(* setReady's message: "ModelDeployment is serving the target revision"    *)
(* (status.go:605).  A fleet whose rollout missed its deadline does not.   *)
ReadyMeansTarget ==
  status.ready = "True" /\ dep.size > 0 => status.progressing # "ProgressDeadlineExceeded"
=============================================================================
