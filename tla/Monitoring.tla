------------------------------ MODULE Monitoring -------------------------------
(***************************************************************************)
(* The monitoring objects of ModelDeployments: reconcileObservability      *)
(* (internal/controller/observability.go) and the discovery cache it asks  *)
(* (internal/discovery/discovery.go).                                      *)
(*                                                                         *)
(* The two kinds are optional: an add-on may be installed or removed at    *)
(* any time, and with it all objects of its kinds.  Nobody is told, since  *)
(* the kinds are not watched; the reconciler comes back on a timer.  All   *)
(* ModelDeployments share one worker and one cache.  A pass reads and      *)
(* writes objects that others may replace in between.                      *)
(*                                                                         *)
(* Time is counted in ticks; a pass takes none, and is started as soon as  *)
(* it is due.                                                              *)
(***************************************************************************)
EXTENDS Integers, FiniteSets

CONSTANTS MDs, None,
          AbsentTTL, PresentTTL,  \* lifetimes of a cached answer
          Resync,                 \* the period of a pass with nothing to wait for
          Retry,                  \* the queue's backoff after an error
          MaxTrouble              \* bound: what others do, and calls that fail

ASSUME MonitoringAssumption ==
  /\ AbsentTTL \in Nat \ {0} /\ PresentTTL \in Nat \ {0}
  /\ Resync \in Nat \ {0} /\ Retry \in Nat \ {0}

Kinds == {"rule", "monitor"}

Specs    == [on : SUBSET Kinds, shim : BOOLEAN]
Statuses == {"True", "False", "Unknown"}
Reasons  == {"NotEvaluated", "Reconciling", "MetricsRegistered", "ShimDisabled",
             "ServiceMonitorDisabled", "PrometheusOperatorCRDsAbsent"}
Verdicts == [status : Statuses, reason : Reasons, absent : SUBSET Kinds]
Passes   == [md : MDs, spec : Specs, kind : Kinds,
             at : {"start", "apply", "create", "write", "delete", "resync"},
             touched : BOOLEAN, replaced : BOOLEAN, out : Verdicts, failed : BOOLEAN]
Answers  == [present : BOOLEAN, left : Nat]

ASSUME NoneAssumption == None \notin BOOLEAN \cup Nat \cup Answers \cup Passes

VARIABLES
  crd,      \* the kinds the cluster serves
  cache,    \* Prober.cache: None, or an answer and the time it has left
  spec,     \* of each ModelDeployment: the kinds it enables, and its shim switch
  child,    \* the objects: None, or whose they are and whether they are current
  pass,     \* the pass the worker is in, or None
  due,      \* when each ModelDeployment is next reconciled, or None
  verdict,  \* its MetricsRegistered condition
  trouble,  \* how much has happened so far
  clock     \* history, see below

vars == <<crd, cache, spec, child, pass, due, verdict, trouble, clock>>

(* The history of a kind: `age`, the time since its installation, and      *)
(* `told`, the ModelDeployments that waited for it (until anything else    *)
(* goes wrong); `gone`, the time since it was last absent.                 *)

(* A ModelDeployment waits for a kind it enables if the pass it is in has  *)
(* found the kind absent, or else its last pass.                           *)
Waits(m, k) ==
  k \in spec[m].on /\ k \in (IF pass # None /\ pass.md = m THEN pass.out ELSE verdict[m]).absent

Current == [mine |-> TRUE, current |-> TRUE]
Objects == {Current, [mine |-> TRUE, current |-> FALSE], [mine |-> FALSE, current |-> FALSE]}

NoVerdict == [status |-> "Unknown", reason |-> "NotEvaluated", absent |-> {}]

Init ==
  /\ crd \in SUBSET Kinds
  /\ spec = [m \in MDs |-> [on |-> Kinds, shim |-> TRUE]]
  /\ cache = [k \in Kinds |-> None]
  /\ child = [m \in MDs |-> [k \in Kinds |-> None]]
  /\ pass = None /\ due = [m \in MDs |-> 0]
  /\ verdict = [m \in MDs |-> NoVerdict]
  /\ trouble = 0
  /\ clock = [k \in Kinds |-> [age |-> None, told |-> {},
                               gone |-> IF k \in crd THEN AbsentTTL + 1 ELSE 0]]

-----------------------------------------------------------------------------
(* Prober *)

lookup(k) == cache[k] # None /\ cache[k].left > 0

store(k, present) ==
  [cache EXCEPT ![k] = [present |-> present,
                        left    |-> IF present THEN PresentTTL ELSE AbsentTTL]]

Invalidate(k) == [cache EXCEPT ![k] = None]

(* A call fails, or does not.  A failure ends the clean history.           *)
Fails ==
  /\ trouble < MaxTrouble /\ trouble' = trouble + 1
  /\ clock' = [k \in Kinds |-> [clock[k] EXCEPT !.age = None, !.told = {}]]

Works == UNCHANGED <<trouble, clock>>

(* A mutant: a failed probe is kept as an absence.                         *)
HasForgetful(k, answer) ==
  IF lookup(k) THEN answer = cache[k].present /\ UNCHANGED cache /\ Works
  ELSE \/ answer = (k \in crd) /\ cache' = store(k, k \in crd) /\ Works
       \/ answer = FALSE /\ cache' = store(k, FALSE) /\ Fails

(* Has(k) = answer: from the cache, or from the API server, whose failure  *)
(* is no answer and is not kept.                                           *)
Has(k, answer) ==
  IF lookup(k) THEN answer = cache[k].present /\ UNCHANGED cache /\ Works
  ELSE \/ answer = (k \in crd) /\ cache' = store(k, k \in crd) /\ Works
       \/ answer = None /\ UNCHANGED cache /\ Fails

-----------------------------------------------------------------------------
(* reconcileObservability, one call of the API server a step: the rule,    *)
(* then the monitor, then observabilityResync.  A pass works from the copy *)
(* of the spec it started with; "touched" and "replaced" say what became   *)
(* of an object since it was read.                                         *)

Begin(m) ==
  /\ pass = None /\ due[m] = 0
  /\ pass' = [md |-> m, spec |-> spec[m], kind |-> "rule", at |-> "start",
              touched |-> FALSE, replaced |-> FALSE,
              out |-> NoVerdict, failed |-> FALSE]
  /\ due' = [due EXCEPT ![m] = None]
  /\ UNCHANGED <<crd, cache, spec, child, verdict, trouble, clock>>

Step == pass # None /\ UNCHANGED <<crd, spec, due, verdict>>

Enabled(k) == k \in pass.spec.on
Mine == child[pass.md][pass.kind]
Write(object) == child' = [child EXCEPT ![pass.md][pass.kind] = object]

Return(status, reason, failed) ==
  pass' = [pass EXCEPT !.at = "resync", !.failed = failed,
                       !.kind = IF Enabled("monitor") THEN "monitor" ELSE "rule",
                       !.touched = FALSE, !.replaced = FALSE,
                       !.out.status = status, !.out.reason = reason]

Error(status) == Return(status, "Reconciling", TRUE)

(* The rule is settled and the monitor is next, or the pass is decided.    *)
Settled(reason) ==
  IF pass.kind = "rule"
  THEN pass' = [pass EXCEPT !.kind = "monitor", !.at = "start",
                            !.touched = FALSE, !.replaced = FALSE]
  ELSE Return(IF reason = "MetricsRegistered" THEN "True" ELSE "False", reason, FALSE)

Absent(k) ==
  IF k = "rule"
  THEN pass' = [pass EXCEPT !.kind = "monitor", !.out.absent = {"rule"}]
  ELSE pass' = [pass EXCEPT !.at = "resync", !.out.status = "False",
                            !.out.reason = "PrometheusOperatorCRDsAbsent",
                            !.out.absent = @ \cup {"monitor"}]

(* An enabled kind is applied if the cluster serves it.                    *)
Probe ==
  /\ Step /\ pass.at = "start" /\ Enabled(pass.kind)
  /\ \E answer \in BOOLEAN \cup {None} :
       /\ Has(pass.kind, answer)
       /\ \/ answer = TRUE /\ pass' = [pass EXCEPT !.at = "apply"]
          \/ answer = FALSE /\ Absent(pass.kind)
          \/ answer = None /\ Error("Unknown")
  /\ UNCHANGED child

Unable ==
  /\ Fails
  /\ Error(IF pass.at \in {"start", "delete"} /\ pass.kind = "monitor"
           THEN "Unknown" ELSE "False")
  /\ UNCHANGED <<cache, child>>

(* The kind is not served after all: the cached answer is dropped.         *)
invalidateMissingObservabilityKind ==
  /\ pass.kind \notin crd
  /\ cache' = Invalidate(pass.kind) /\ Error("False") /\ Works /\ UNCHANGED child

(* A mutant: an object of its own is left as it is.                        *)
ReadForCreate ==
  /\ Step /\ pass.at = "apply"
  /\ \/ Unable
     \/ invalidateMissingObservabilityKind
     \/ /\ pass.kind \in crd /\ Works /\ UNCHANGED <<cache, child>>
        /\ IF Mine = None
           THEN pass' = [pass EXCEPT !.at = "create", !.touched = FALSE, !.replaced = FALSE]
           ELSE IF ~Mine.mine THEN Error("False")
           ELSE Settled(IF pass.spec.shim THEN "MetricsRegistered" ELSE "ShimDisabled")

(* applyObservabilityChild: what is not there is created, and then applied *)
(* to; what is there must be this ModelDeployment's.                       *)
ReadForApply ==
  /\ Step /\ pass.at = "apply"
  /\ \/ Unable
     \/ invalidateMissingObservabilityKind
     \/ /\ pass.kind \in crd /\ Works /\ UNCHANGED <<cache, child>>
        /\ IF Mine # None /\ ~Mine.mine THEN Error("False")
           ELSE pass' = [pass EXCEPT !.at = IF Mine = None THEN "create" ELSE "write",
                                     !.touched = FALSE, !.replaced = FALSE]

Create ==
  /\ Step /\ pass.at = "create"
  /\ \/ Unable
     \/ invalidateMissingObservabilityKind
     \/ /\ pass.kind \in crd /\ Works /\ UNCHANGED cache
        /\ IF Mine # None THEN Error("False") /\ UNCHANGED child
           ELSE /\ Write(Current)
                /\ pass' = [pass EXCEPT !.at = "write",
                                        !.touched = FALSE, !.replaced = FALSE]

(* A mutant: the apply carries no resourceVersion.                         *)
unconditional == FALSE

(* The apply carries the resourceVersion that was read.                    *)
conflicts == pass.touched

Apply ==
  /\ Step /\ pass.at = "write"
  /\ \/ Unable
     \/ invalidateMissingObservabilityKind
     \/ /\ pass.kind \in crd /\ Works /\ UNCHANGED cache
        /\ IF conflicts THEN Error("False") /\ UNCHANGED child
           ELSE /\ Write(Current)
                /\ Settled(IF pass.spec.shim THEN "MetricsRegistered" ELSE "ShimDisabled")

(* deleteObservabilityChild: the deletion carries the UID that was read.   *)
ReadForDelete ==
  /\ Step /\ pass.at = "start" /\ ~Enabled(pass.kind)
  /\ \/ Unable
     \/ /\ Works /\ UNCHANGED <<cache, child>>
        /\ IF Mine = None THEN Settled("ServiceMonitorDisabled")
           ELSE IF ~Mine.mine THEN Error(IF pass.kind = "rule" THEN "False" ELSE "Unknown")
           ELSE pass' = [pass EXCEPT !.at = "delete", !.touched = FALSE, !.replaced = FALSE]

Delete ==
  /\ Step /\ pass.at = "delete"
  /\ \/ Unable
     \/ /\ Works /\ UNCHANGED cache
        /\ IF pass.replaced /\ Mine # None
           THEN Error(IF pass.kind = "rule" THEN "False" ELSE "Unknown") /\ UNCHANGED child
           ELSE Write(None) /\ Settled("ServiceMonitorDisabled")

(* The status is written and the next pass is timed.                       *)
End(after) ==
  /\ verdict' = [verdict EXCEPT ![pass.md] = pass.out]
  /\ due' = [due EXCEPT ![pass.md] = IF @ = 0 THEN 0 ELSE IF pass.failed THEN Retry ELSE after]
  /\ pass' = None

(* A mutant: there is no timer while a kind is absent.                     *)
resyncOnlyIfPresent ==
  /\ pass # None /\ pass.at = "resync"
  /\ \/ \E answer \in BOOLEAN \cup {None} :
          /\ Enabled(pass.kind) /\ Has(pass.kind, answer)
          /\ IF answer # TRUE THEN End(None)
             ELSE IF pass.kind = "monitor" /\ Enabled("rule")
             THEN pass' = [pass EXCEPT !.kind = "rule"] /\ UNCHANGED <<due, verdict>>
             ELSE End(Resync)
     \/ ~Enabled(pass.kind) /\ End(None) /\ Works /\ UNCHANGED cache
  /\ UNCHANGED <<crd, spec, child>>

(* observabilityResync asks about the enabled kinds again, up to the first *)
(* that is not there.                                                      *)
observabilityResync ==
  /\ pass # None /\ pass.at = "resync"
  /\ \/ \E answer \in BOOLEAN \cup {None} :
          /\ Enabled(pass.kind) /\ Has(pass.kind, answer)
          /\ IF answer # TRUE THEN End(AbsentTTL)
             ELSE IF pass.kind = "monitor" /\ Enabled("rule")
             THEN pass' = [pass EXCEPT !.kind = "rule"] /\ UNCHANGED <<due, verdict>>
             ELSE End(Resync)
     \/ ~Enabled(pass.kind) /\ End(None) /\ Works /\ UNCHANGED cache
  /\ UNCHANGED <<crd, spec, child>>

-----------------------------------------------------------------------------
(* What others do.                                                         *)

Event ==
  /\ trouble < MaxTrouble /\ trouble' = trouble + 1
  /\ UNCHANGED <<cache, verdict>>

Unsettled == [k \in Kinds |-> [clock[k] EXCEPT !.age = None, !.told = {}]]

Install(k) ==
  /\ Event /\ k \notin crd
  /\ crd' = crd \cup {k}
  /\ clock' = [clock EXCEPT ![k].age = 0,
                            ![k].told = {m \in MDs : Waits(m, k)}]
  /\ UNCHANGED <<spec, child, pass, due>>

(* The objects go with their kind.                                         *)
Uninstall(k) ==
  /\ Event /\ k \in crd
  /\ crd' = crd \ {k}
  /\ child' = [m \in MDs |-> [child[m] EXCEPT ![k] = None]]
  /\ clock' = [Unsettled EXCEPT ![k].gone = 0]
  /\ pass' = IF pass # None /\ pass.kind = k
             THEN [pass EXCEPT !.touched = TRUE, !.replaced = TRUE] ELSE pass
  /\ UNCHANGED <<spec, due>>

(* An object drifts or is handed over in place; or it is deleted, or        *)
(* deleted and created anew by someone else.                               *)
Tamper(m, k) ==
  /\ Event /\ k \in crd
  /\ \E object \in Objects \cup {None}, fresh \in BOOLEAN :
       /\ object # child[m][k]
       /\ None \in {object, child[m][k]} => fresh
       /\ fresh /\ object # None => ~object.mine
       /\ child' = [child EXCEPT ![m][k] = object]
       /\ pass' = IF pass # None /\ pass.md = m /\ pass.kind = k
                  THEN [pass EXCEPT !.touched = TRUE, !.replaced = @ \/ fresh] ELSE pass
  /\ clock' = Unsettled
  /\ UNCHANGED <<crd, spec, due>>

Edit(m) ==
  /\ Event
  /\ \E new \in Specs :
       new # spec[m] /\ spec' = [spec EXCEPT ![m] = new]
  /\ due' = [due EXCEPT ![m] = 0]
  /\ clock' = Unsettled
  /\ UNCHANGED <<crd, child, pass>>

AtMost(n, bound) == IF n < bound THEN n + 1 ELSE bound

Tick ==
  /\ pass = None /\ \A m \in MDs : due[m] # 0
  /\ due' = [m \in MDs |-> IF due[m] = None THEN None ELSE due[m] - 1]
  /\ cache' = [k \in Kinds |-> IF lookup(k) THEN [cache[k] EXCEPT !.left = @ - 1] ELSE cache[k]]
  /\ clock' = [k \in Kinds |->
                 [clock[k] EXCEPT !.age = IF @ = None THEN None ELSE AtMost(@, 2 * AbsentTTL + 1),
                                  !.gone = IF k \in crd THEN AtMost(@, AbsentTTL + 1) ELSE 0]]
  /\ UNCHANGED <<crd, spec, child, pass, verdict, trouble>>

Work ==
  \/ \E m \in MDs : Begin(m)
  \/ Probe \/ ReadForApply \/ Create \/ Apply \/ ReadForDelete \/ Delete
  \/ observabilityResync

Next ==
  \/ Work \/ Tick
  \/ \E k \in Kinds : Install(k) \/ Uninstall(k)
  \/ \E m \in MDs, k \in Kinds : Tamper(m, k)
  \/ \E m \in MDs : Edit(m)

Spec == Init /\ [][Next]_vars

(* The worker takes what is due, and time passes.                          *)
FairSpec == Spec /\ WF_vars(Work) /\ WF_vars(Tick)

-----------------------------------------------------------------------------
(* Properties *)

(* An object of someone else's under one of the names: the pass of that    *)
(* ModelDeployment fails at it, and does not get to what comes after.      *)
Theirs(m) == \E k \in Kinds : child[m][k] # None /\ ~child[m][k].mine

(* "an installation is noticed within a minute" (discovery.go): a          *)
(* ModelDeployment that was told that a kind is absent has its object      *)
(* within two lifetimes of a negative answer after the installation,       *)
(* although another one may have renewed the answer they share just before *)
(* (unless an object of someone else's is in the way).                     *)
NoticedWithinAMinute ==
  \A k \in Kinds : \A m \in clock[k].told :
    clock[k].age # None /\ clock[k].age > 2 * AbsentTTL /\ ~Theirs(m)
      => child[m][k] = Current

(* An absence is asserted only if the kind was absent at most one lifetime *)
(* of a negative answer ago: an API server that cannot be asked never      *)
(* tells a user that their monitoring stack is not installed.              *)
AbsenceWasVerified ==
  [][\A m \in MDs : verdict'[m] # verdict[m] =>
       \A k \in verdict'[m].absent : clock[k].gone <= AbsentTTL]_vars

(* The reconciler creates, or writes to what is its own at that moment     *)
(* ("a concurrent replacement must fail instead of being adopted by        *)
(* ForceOwnership"), and what it deletes it has read as its own.           *)
OthersUntouched ==
  [][Work => \A m \in MDs, k \in Kinds :
       child[m][k] # None /\ ~child[m][k].mine /\ child'[m][k] # child[m][k]
         => child'[m][k] = None /\ pass.at = "delete" /\ ~pass.replaced]_vars

Right(m, k) ==
  IF k \in spec[m].on THEN k \in crd => child[m][k] = Current
  ELSE child[m][k] = None

(* The reason of MetricsRegistered the spec and the cluster call for.      *)
Due(m) ==
  IF "monitor" \notin spec[m].on THEN "ServiceMonitorDisabled"
  ELSE IF "monitor" \notin crd THEN "PrometheusOperatorCRDsAbsent"
  ELSE IF spec[m].shim THEN "MetricsRegistered" ELSE "ShimDisabled"

(* Whatever others did to the objects, the kinds and the specs, once they  *)
(* stop every ModelDeployment has the objects its spec enables, current,   *)
(* and none that it disables, and its condition gives the reason that      *)
(* holds, unless someone else's object is in the way                       *)
(* (observabilityResync, setMetricsRegistered).                            *)
EventuallyRepaired ==
  <>[](\A m \in MDs : ~Theirs(m) =>
         verdict[m].reason = Due(m) /\ \A k \in Kinds : Right(m, k))
=============================================================================
