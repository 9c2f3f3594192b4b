--------------------------- MODULE MonitoringProofs ---------------------------
(***************************************************************************)
(* What reconcileObservability guarantees for every number of              *)
(* ModelDeployments, every lifetime of a cached answer and any amount of   *)
(* trouble.                                                                *)
(***************************************************************************)
EXTENDS Monitoring, TLAPS

Clocks == [age : Nat \cup {None}, told : SUBSET MDs, gone : Nat]

TypeInv ==
  /\ crd \in SUBSET Kinds
  /\ cache \in [Kinds -> Answers \cup {None}]
  /\ spec \in [MDs -> Specs]
  /\ child \in [MDs -> [Kinds -> Objects \cup {None}]]
  /\ pass \in Passes \cup {None}
  /\ due \in [MDs -> Nat \cup {None}]
  /\ verdict \in [MDs -> Verdicts]
  /\ clock \in [Kinds -> Clocks]

(* An apply that would not conflict finds its own object.                  *)
WriteInv ==
  pass # None /\ pass.at = "write" /\ ~pass.touched => Mine.mine

(* A negative answer expires within a lifetime of the last absence, and an *)
(* absence noted by the pass is that recent.                               *)
AbsenceInv ==
  /\ \A k \in Kinds : k \notin crd => clock[k].gone = 0
  /\ \A k \in Kinds : cache[k] # None /\ ~cache[k].present /\ cache[k].left > 0
       => clock[k].gone + cache[k].left <= AbsentTTL
  /\ pass # None => \A k \in pass.out.absent : clock[k].gone <= AbsentTTL

MInv == TypeInv /\ WriteInv /\ AbsenceInv

(* Why an installation is noticed.  A kind is live while nothing has gone  *)
(* wrong since its installation.                                           *)
Running(m)     == pass # None /\ pass.md = m
Live(k)        == clock[k].age # None
Aged(k)        == Live(k) /\ clock[k].age > 0
KnownAbsent(k) == lookup(k) /\ ~cache[k].present
Stale(k)       == lookup(k) /\ cache[k].present /\ k \notin crd
Applying       == pass.at \in {"apply", "create", "write"}

(* The kinds the pass has dealt with.                                      *)
Passed(k) == pass.at = "resync" \/ (k = "rule" /\ pass.kind = "monitor")

(* An absence that the pass has noted is still cached, so that the resync  *)
(* comes to it again; whoever waits comes back within a lifetime of it.    *)
WaitInv ==
  /\ pass # None =>
       /\ pass.out.absent \subseteq pass.spec.on
       /\ \A k \in pass.out.absent : KnownAbsent(k)
       /\ pass.at # "resync" =>
            pass.kind \notin pass.out.absent /\ "monitor" \notin pass.out.absent /\ ~pass.failed
       /\ pass.kind = "rule" => "monitor" \notin pass.out.absent
       /\ pass.at = "resync" /\ pass.kind = "monitor" => "monitor" \in pass.spec.on
       /\ pass.at = "delete" => pass.kind \notin pass.spec.on
       /\ due[pass.md] = 0 \/ (due[pass.md] = None /\ pass.spec = spec[pass.md])
  /\ \A m \in MDs, k \in Kinds : Waits(m, k) /\ ~Running(m)
       => due[m] # None /\ due[m] <= AbsentTTL

(* A pass that has started after the installation finds what it has read.  *)
FreshInv ==
  pass # None /\ (\E k \in Kinds : Aged(k)) =>
    /\ pass.spec = spec[pass.md] /\ due[pass.md] = None
    /\ ~pass.touched /\ ~pass.replaced
    /\ pass.at = "create" => Mine = None
    /\ pass.at = "delete" => Mine = None \/ Mine.mine

(* Where a ModelDeployment stands that was told of the absence of k and    *)
(* does not have its object yet: in a pass it has still to come to k, or   *)
(* will come back early; between two passes the next one is in time, and   *)
(* if it is the last in time it meets no stale answer.                     *)
InPass(m, k) ==
  /\ \A j \in spec[m].on : Passed(j) => ~Stale(j)
  /\ clock[k].age > AbsentTTL =>
       /\ clock[k].age <= 2 * AbsentTTL
       /\ \A j \in spec[m].on : ~Stale(j)
       /\ ~pass.failed
       /\ Applying => pass.kind \in crd

Between(m, k) ==
  /\ due[m] # None /\ due[m] + clock[k].age <= 2 * AbsentTTL
  /\ due[m] + clock[k].age > AbsentTTL => \A j \in spec[m].on : ~Stale(j)

LiveInv ==
  \A k \in Kinds : Live(k) =>
    /\ k \in crd
    /\ KnownAbsent(k) => cache[k].left + clock[k].age <= AbsentTTL
    /\ \A m \in clock[k].told :
         /\ k \in spec[m].on
         /\ Running(m) => k \in pass.spec.on
         /\ Running(m) /\ child[m][k] # Current
              => ~Passed(k) \/ k \in pass.out.absent \/ pass.failed
         /\ Running(m) /\ child[m][k] # Current /\ ~Theirs(m) /\ Aged(k) => InPass(m, k)
         /\ ~Running(m) /\ child[m][k] # Current /\ ~Theirs(m) => Between(m, k)

NInv == MInv /\ WaitInv /\ FreshInv /\ LiveInv

-----------------------------------------------------------------------------
(* What the calls do. *)

GoneKept == clock' \in [Kinds -> Clocks] /\ \A k \in Kinds : clock'[k].gone = clock[k].gone

LEMMA FailsEffect == TypeInv /\ (Fails \/ Works) => GoneKept
  <1> SUFFICES ASSUME TypeInv, Fails \/ Works PROVE GoneKept
    BY Zenon
  <1>1. CASE Works
    BY <1>1, Zenon DEF Works, GoneKept, TypeInv
  <1>2. CASE Fails
    <2>1. ASSUME NEW k \in Kinds
          PROVE  /\ clock'[k] = [clock[k] EXCEPT !.age = None, !.told = {}]
                 /\ clock'[k] \in Clocks /\ clock'[k].gone = clock[k].gone
      BY <1>2, Zenon DEF Fails, TypeInv, Clocks
    <2>2. clock' = [k \in Kinds |-> clock'[k]]
      BY <1>2, Zenon DEF Fails
    <2>3. QED
      BY <2>1, <2>2, Zenon DEF GoneKept
  <1>3. QED
    BY <1>1, <1>2, Zenon

Answered ==
  /\ cache' \in [Kinds -> Answers \cup {None}]
  /\ \A k \in Kinds : cache'[k] # None /\ ~cache'[k].present /\ cache'[k].left > 0
       => clock[k].gone + cache'[k].left <= AbsentTTL

LEMMA StoreEffect ==
  ASSUME TypeInv, AbsenceInv, NEW k \in Kinds,
         cache' = store(k, k \in crd) \/ cache' = Invalidate(k) \/ cache' = cache
  PROVE  Answered
  <1>1. AbsentTTL \in Nat /\ PresentTTL \in Nat
    BY MonitoringAssumption, Zenon
  <1>2. CASE cache' = cache
    BY <1>2, Zenon DEF Answered, TypeInv, AbsenceInv
  <1>3. CASE cache' = Invalidate(k)
    BY <1>3, Zenon DEF Answered, TypeInv, AbsenceInv, Invalidate
  <1>4. CASE cache' = store(k, k \in crd)
    <2> DEFINE a == [present |-> k \in crd,
                     left |-> IF k \in crd THEN PresentTTL ELSE AbsentTTL]
    <2>1. cache' = [cache EXCEPT ![k] = a]
      BY <1>4, Zenon DEF store
    <2>2. a \in Answers
      BY <1>1 DEF Answers
    <2>3. ~a.present => clock[k].gone = 0 /\ a.left = AbsentTTL
      BY Zenon DEF AbsenceInv
    <2> HIDE DEF a
    <2>4. cache' \in [Kinds -> Answers \cup {None}]
      BY <2>1, <2>2, Zenon DEF TypeInv
    <2>5. ASSUME NEW j \in Kinds, cache'[j] # None, ~cache'[j].present, cache'[j].left > 0
          PROVE  clock[j].gone + cache'[j].left <= AbsentTTL
      <3>1. CASE j = k
        <4>1. cache'[j] = a
          BY <2>1, <3>1, Zenon DEF TypeInv
        <4>2. QED
          BY <1>1, <2>3, <2>5, <3>1, <4>1
      <3>2. CASE j # k
        <4>1. cache'[j] = cache[j]
          BY <2>1, <3>2, Zenon DEF TypeInv
        <4>2. QED
          BY <2>5, <4>1, Zenon DEF AbsenceInv
      <3>3. QED
        BY <3>1, <3>2, Zenon
    <2>6. QED
      BY <2>4, <2>5, Zenon DEF Answered
  <1>5. QED
    BY <1>2, <1>3, <1>4, Zenon

LEMMA HasEffect ==
  ASSUME TypeInv, AbsenceInv, NEW k \in Kinds, NEW answer, Has(k, answer)
  PROVE  Answered /\ GoneKept /\ (answer = FALSE => clock[k].gone <= AbsentTTL)
  <1>1. cache' = store(k, k \in crd) \/ cache' = Invalidate(k) \/ cache' = cache
    BY Zenon DEF Has
  <1>2. Fails \/ Works
    BY Zenon DEF Has
  <1>3. clock[k].gone \in Nat /\ AbsentTTL \in Nat
    BY MonitoringAssumption, Zenon DEF TypeInv, Clocks
  <1>4. ASSUME answer = FALSE PROVE clock[k].gone <= AbsentTTL
    <2>1. CASE lookup(k)
      <3>1. cache[k] # None /\ cache[k].left > 0 /\ ~cache[k].present
        BY <1>4, <2>1, Zenon DEF Has, lookup
      <3>2. cache[k].left \in Nat /\ clock[k].gone + cache[k].left <= AbsentTTL
        BY <3>1, Zenon DEF AbsenceInv, TypeInv, Answers
      <3>3. QED
        BY <1>3, <3>2
    <2>2. CASE ~lookup(k)
      <3>1. k \notin crd
        BY <1>4, <2>2, NoneAssumption, Zenon DEF Has
      <3>2. QED
        BY <1>3, <3>1 DEF AbsenceInv
    <2>3. QED
      BY <2>1, <2>2, Zenon
  <1>5. QED
    BY <1>1, <1>2, <1>4, FailsEffect, StoreEffect, Zenon

(* What a pass keeps from one call to the next.                            *)
Continues ==
  pass' \in Passes /\ pass'.md = pass.md /\ pass'.out.absent = pass.out.absent
  /\ pass'.spec = pass.spec

LEMMA ReturnEffect ==
  ASSUME pass \in Passes, NEW status \in Statuses, NEW reason \in Reasons,
         NEW failed \in BOOLEAN, Return(status, reason, failed)
  PROVE  /\ Continues /\ pass'.at = "resync" /\ pass'.failed = failed
         /\ ~pass'.touched /\ ~pass'.replaced
         /\ pass'.kind = IF Enabled("monitor") THEN "monitor" ELSE "rule"
  <1> DEFINE kind == IF Enabled("monitor") THEN "monitor" ELSE "rule"
             out  == [pass.out EXCEPT !.status = status, !.reason = reason]
  <1>1. kind \in Kinds
    BY Zenon DEF Kinds
  <1>2. pass.out \in Verdicts
    BY Zenon DEF Passes
  <1>3. out \in Verdicts /\ out.absent = pass.out.absent
    BY <1>2, Zenon DEF Verdicts
  <1>4. pass' = [pass EXCEPT !.at = "resync", !.failed = failed, !.kind = kind,
                             !.touched = FALSE, !.replaced = FALSE, !.out = out]
    BY <1>2, Zenon DEF Return, Passes, Verdicts
  <1> HIDE DEF kind, out
  <1>5. QED
    <2>1. /\ Continues /\ pass'.at = "resync" /\ pass'.failed = failed
          /\ ~pass'.touched /\ ~pass'.replaced /\ pass'.kind = kind
      BY <1>1, <1>3, <1>4, Zenon DEF Continues, Passes
    <2>2. QED
      BY <2>1, Zenon DEF kind

(* The pass has failed, and the resync is next. *)
Failed ==
  /\ Continues /\ pass'.at = "resync" /\ pass'.failed /\ ~pass'.touched /\ ~pass'.replaced
  /\ pass'.kind = IF Enabled("monitor") THEN "monitor" ELSE "rule"

LEMMA ErrorEffect ==
  ASSUME pass \in Passes, NEW status \in Statuses, Error(status)
  PROVE  Failed
  <1>1. Return(status, "Reconciling", TRUE)
    BY Zenon DEF Error
  <1>2. "Reconciling" \in Reasons /\ TRUE \in BOOLEAN
    BY Zenon DEF Reasons
  <1>3. /\ Continues /\ pass'.at = "resync" /\ pass'.failed = TRUE
        /\ ~pass'.touched /\ ~pass'.replaced
        /\ pass'.kind = IF Enabled("monitor") THEN "monitor" ELSE "rule"
    BY <1>1, <1>2, ReturnEffect, Zenon
  <1>4. QED
    BY <1>3, Zenon DEF Failed

(* The kind is dealt with: the monitor is next, or the resync. *)
Onward ==
  /\ Continues /\ ~pass'.touched /\ ~pass'.replaced
  /\ IF pass.kind = "rule" THEN pass'.at = "start" /\ pass'.kind = "monitor" /\ pass'.failed = pass.failed
     ELSE /\ pass'.at = "resync" /\ pass'.failed = FALSE
          /\ pass'.kind = IF Enabled("monitor") THEN "monitor" ELSE "rule"

LEMMA SettledEffect ==
  ASSUME pass \in Passes, NEW reason \in Reasons, Settled(reason)
  PROVE  Onward
  <1>1. CASE pass.kind = "rule"
    BY <1>1, ZenonT(60) DEF Settled, Onward, Continues, Passes, Kinds
  <1>2. CASE pass.kind # "rule"
    <2> DEFINE s == IF reason = "MetricsRegistered" THEN "True" ELSE "False"
    <2>1. Return(s, reason, FALSE)
      BY <1>2, Zenon DEF Settled
    <2>2. s \in Statuses /\ FALSE \in BOOLEAN
      BY Zenon DEF Statuses
    <2> HIDE DEF s
    <2>3. /\ Continues /\ pass'.at = "resync" /\ pass'.failed = FALSE
          /\ ~pass'.touched /\ ~pass'.replaced
          /\ pass'.kind = IF Enabled("monitor") THEN "monitor" ELSE "rule"
      BY <2>1, <2>2, ReturnEffect, Zenon
    <2>4. QED
      BY <1>2, <2>3, Zenon DEF Onward
  <1>3. QED
    BY <1>1, <1>2, Zenon

LEMMA UnableEffect ==
  ASSUME pass \in Passes, Unable
  PROVE  Failed /\ Fails /\ UNCHANGED <<cache, child>>
  <1> DEFINE s == IF pass.at \in {"start", "delete"} /\ pass.kind = "monitor"
                  THEN "Unknown" ELSE "False"
  <1>1. Error(s)
    BY Zenon DEF Unable
  <1>2. s \in Statuses
    BY Zenon DEF Statuses
  <1> HIDE DEF s
  <1>3. Failed
    BY <1>1, <1>2, ErrorEffect, Zenon
  <1>4. QED
    BY <1>3, Zenon DEF Unable

LEMMA MissingEffect ==
  ASSUME pass \in Passes, invalidateMissingObservabilityKind
  PROVE  /\ Failed /\ Works /\ UNCHANGED child
         /\ pass.kind \notin crd /\ cache' = Invalidate(pass.kind)
  <1>1. Error("False")
    BY Zenon DEF invalidateMissingObservabilityKind
  <1>2. "False" \in Statuses
    BY Zenon DEF Statuses
  <1>3. Failed
    BY <1>1, <1>2, ErrorEffect, Zenon
  <1>4. QED
    BY <1>3, Zenon DEF invalidateMissingObservabilityKind

LEMMA WriteEffect ==
  ASSUME TypeInv, pass \in Passes, NEW object \in Objects \cup {None}, Write(object)
  PROVE  /\ child' \in [MDs -> [Kinds -> Objects \cup {None}]]
         /\ child'[pass.md][pass.kind] = object
         /\ \A m \in MDs, k \in Kinds :
              <<m, k>> # <<pass.md, pass.kind>> => child'[m][k] = child[m][k]
  <1>1. pass.md \in MDs /\ pass.kind \in Kinds
    BY Zenon DEF Passes
  <1>2. QED
    BY <1>1, Zenon DEF Write, TypeInv

-----------------------------------------------------------------------------
(* The steps of a pass *)

(* A call that leaves the pass with what it has noted keeps the invariant. *)
LEMMA CallMInv ==
  ASSUME MInv, pass \in Passes, Step, GoneKept, Answered, Continues,
         child' \in [MDs -> [Kinds -> Objects \cup {None}]],
         pass'.at = "write" => child'[pass'.md][pass'.kind].mine
  PROVE  MInv'
  <1>1. TypeInv'
    BY Zenon DEF MInv, TypeInv, Step, GoneKept, Answered, Continues
  <1>2. WriteInv'
    BY Zenon DEF WriteInv, Mine
  <1>3. \A k \in Kinds : k \notin crd' => clock'[k].gone = 0
    BY Zenon DEF MInv, AbsenceInv, Step, GoneKept
  <1>4. \A k \in Kinds : cache'[k] # None /\ ~cache'[k].present /\ cache'[k].left > 0
           => clock'[k].gone + cache'[k].left <= AbsentTTL
    BY Zenon DEF GoneKept, Answered
  <1>5. \A k \in pass'.out.absent : clock'[k].gone <= AbsentTTL
    <2>1. pass.out.absent \subseteq Kinds /\ pass # None
      BY Zenon DEF Passes, Verdicts, Step
    <2>2. QED
      BY <2>1, Zenon DEF MInv, AbsenceInv, GoneKept, Continues
  <1>6. QED
    BY <1>1, <1>2, <1>3, <1>4, <1>5, Zenon DEF MInv, AbsenceInv

LEMMA UnableMInv == MInv /\ Step /\ (Unable \/ invalidateMissingObservabilityKind) => MInv'
  <1> SUFFICES ASSUME MInv, Step, Unable \/ invalidateMissingObservabilityKind PROVE MInv'
    BY Zenon
  <1>1. pass \in Passes /\ pass.kind \in Kinds /\ TypeInv /\ AbsenceInv
    BY Zenon DEF MInv, TypeInv, Step, Passes
  <1>2. /\ Continues /\ pass'.at = "resync" /\ UNCHANGED child /\ (Fails \/ Works)
        /\ cache' = Invalidate(pass.kind) \/ cache' = cache
    BY <1>1, UnableEffect, MissingEffect, Zenon DEF Failed
  <1>3. GoneKept /\ Answered
    BY <1>1, <1>2, FailsEffect, StoreEffect, Zenon
  <1>4. child' \in [MDs -> [Kinds -> Objects \cup {None}]]
    BY <1>1, <1>2, Zenon DEF TypeInv
  <1>5. pass'.at = "write" => child'[pass'.md][pass'.kind].mine
    BY <1>2, Zenon
  <1>6. QED
    BY <1>1, <1>2, <1>3, <1>4, <1>5, CallMInv, Zenon

LEMMA ProbeMInv == MInv /\ Probe => MInv'
  <1> SUFFICES ASSUME MInv, Probe PROVE MInv'
    BY Zenon
  <1>1. pass \in Passes /\ pass.kind \in Kinds /\ TypeInv /\ AbsenceInv /\ Step
        /\ pass # None /\ UNCHANGED child
    BY Zenon DEF MInv, TypeInv, Step, Passes, Probe
  <1>2. PICK answer \in BOOLEAN \cup {None} :
          /\ Has(pass.kind, answer)
          /\ \/ answer = TRUE /\ pass' = [pass EXCEPT !.at = "apply"]
             \/ answer = FALSE /\ Absent(pass.kind)
             \/ answer = None /\ Error("Unknown")
    BY Zenon DEF Probe
  <1>3. Answered /\ GoneKept /\ (answer = FALSE => clock[pass.kind].gone <= AbsentTTL)
    BY <1>1, <1>2, HasEffect, Zenon
  <1>4. child' \in [MDs -> [Kinds -> Objects \cup {None}]]
    BY <1>1, Zenon DEF TypeInv
  <1>5. CASE answer = TRUE /\ pass' = [pass EXCEPT !.at = "apply"]
    <2>1. Continues /\ pass'.at = "apply"
      BY <1>1, <1>5, Zenon DEF Continues, Passes
    <2>2. QED
      BY <1>1, <1>3, <1>4, <2>1, CallMInv, Zenon
  <1>6. CASE answer = None /\ Error("Unknown")
    <2>1. "Unknown" \in Statuses
      BY Zenon DEF Statuses
    <2>2. Continues /\ pass'.at = "resync"
      BY <1>1, <1>6, <2>1, ErrorEffect, Zenon DEF Failed
    <2>3. QED
      BY <1>1, <1>3, <1>4, <2>2, CallMInv, Zenon
  <1>7. CASE answer = FALSE /\ Absent(pass.kind)
    <2>1. /\ pass' \in Passes /\ pass'.at # "write"
          /\ pass'.out.absent \subseteq pass.out.absent \cup {pass.kind}
      <3>1. pass.out \in Verdicts /\ pass.at = "start"
        BY <1>1, Zenon DEF Passes, Probe
      <3>2. CASE pass.kind = "rule"
        <4> DEFINE o == [pass.out EXCEPT !.absent = {"rule"}]
        <4>1. pass' = [pass EXCEPT !.kind = "monitor", !.out = o]
          BY <1>1, <1>7, <3>1, <3>2, Zenon DEF Absent, Passes, Verdicts
        <4>2. o \in Verdicts /\ o.absent = {"rule"}
          BY <3>1, Zenon DEF Verdicts, Kinds
        <4> HIDE DEF o
        <4>3. QED
          BY <1>1, <3>1, <3>2, <4>1, <4>2, Zenon DEF Passes, Kinds
      <3>3. CASE pass.kind # "rule"
        <4> DEFINE o == [pass.out EXCEPT !.status = "False",
                                         !.reason = "PrometheusOperatorCRDsAbsent",
                                         !.absent = pass.out.absent \cup {"monitor"}]
        <4>1. pass' = [pass EXCEPT !.at = "resync", !.out = o]
          BY <1>1, <1>7, <3>1, <3>3, Zenon DEF Absent, Passes, Verdicts
        <4>2. o \in Verdicts /\ o.absent = pass.out.absent \cup {"monitor"}
          BY <3>1, Zenon DEF Verdicts, Kinds, Statuses, Reasons
        <4>3. pass.kind = "monitor"
          BY <1>1, <3>3, Zenon DEF Kinds
        <4> HIDE DEF o
        <4>4. QED
          BY <1>1, <3>1, <4>1, <4>2, <4>3, Zenon DEF Passes
      <3>4. QED
        BY <3>2, <3>3, Zenon
    <2>2. TypeInv'
      BY <1>1, <1>3, <2>1, Zenon DEF TypeInv, Step, GoneKept, Answered
    <2>3. WriteInv'
      BY <2>1, Zenon DEF WriteInv
    <2>4. \A k \in pass'.out.absent : clock'[k].gone <= AbsentTTL
      <3>1. pass.out.absent \subseteq Kinds
        BY <1>1, Zenon DEF Passes, Verdicts
      <3>2. \A k \in pass.out.absent : clock[k].gone <= AbsentTTL
        BY <1>1, Zenon DEF AbsenceInv
      <3>3. QED
        BY <1>1, <1>3, <1>7, <2>1, <3>1, <3>2, Zenon DEF GoneKept
    <2>5. AbsenceInv'
      BY <1>1, <1>3, <2>4, Zenon DEF AbsenceInv, Step, GoneKept, Answered
    <2>6. QED
      BY <2>2, <2>3, <2>5, Zenon DEF MInv
  <1>8. QED
    BY <1>2, <1>5, <1>6, <1>7, Zenon

(* The reason a registration is reported with. *)
LEMMA ShimReason ==
  ASSUME pass \in Passes
  PROVE  (IF pass.spec.shim THEN "MetricsRegistered" ELSE "ShimDisabled") \in Reasons
  BY Zenon DEF Reasons

LEMMA WorkingCall ==
  ASSUME MInv, Step, Works, UNCHANGED cache
  PROVE  /\ pass \in Passes /\ pass.md \in MDs /\ pass.kind \in Kinds /\ TypeInv
         /\ GoneKept /\ Answered
  <1>1. pass \in Passes /\ TypeInv /\ AbsenceInv
    BY Zenon DEF MInv, TypeInv, Step
  <1>2. pass.md \in MDs /\ pass.kind \in Kinds
    BY <1>1, Zenon DEF Passes
  <1>3. QED
    BY <1>1, <1>2, FailsEffect, StoreEffect, Zenon

LEMMA ApplyMInv == MInv /\ (ReadForApply \/ Create \/ Apply) => MInv'
  <1> DEFINE Children == [MDs -> [Kinds -> Objects \cup {None}]]
             reason == IF pass.spec.shim THEN "MetricsRegistered" ELSE "ShimDisabled"
  <1>1. Current \in Objects /\ Current.mine /\ "False" \in Statuses
    BY Zenon DEF Current, Objects, Statuses
  <1>2. ASSUME MInv, Step, Works, UNCHANGED <<cache, child>>, Error("False") PROVE MInv'
    <2>1. /\ pass \in Passes /\ TypeInv /\ GoneKept /\ Answered
      BY <1>2, WorkingCall, Zenon
    <2>2. Continues /\ pass'.at = "resync"
      BY <1>1, <1>2, <2>1, ErrorEffect, Zenon DEF Failed
    <2>3. child' \in Children
      BY <1>2, <2>1, Zenon DEF TypeInv
    <2>4. QED
      BY <1>2, <2>1, <2>2, <2>3, CallMInv, Zenon
  <1>3. ASSUME MInv, ReadForApply PROVE MInv'
    <2>1. CASE Unable \/ invalidateMissingObservabilityKind
      BY <1>3, <2>1, UnableMInv, Zenon DEF ReadForApply
    <2>2. CASE /\ pass.kind \in crd /\ Works /\ UNCHANGED <<cache, child>>
               /\ Mine # None /\ ~Mine.mine /\ Error("False")
      BY <1>2, <1>3, <2>2, Zenon DEF ReadForApply
    <2>3. CASE /\ pass.kind \in crd /\ Works /\ UNCHANGED <<cache, child>>
               /\ Mine = None \/ Mine.mine
               /\ pass' = [pass EXCEPT !.at = IF Mine = None THEN "create" ELSE "write",
                                       !.touched = FALSE, !.replaced = FALSE]
      <3>1. Step /\ pass \in Passes /\ TypeInv /\ GoneKept /\ Answered
        BY <1>3, <2>3, WorkingCall, Zenon DEF ReadForApply
      <3>2. Continues /\ pass'.kind = pass.kind /\ (pass'.at = "write" => Mine # None)
        BY <2>3, <3>1, Zenon DEF Continues, Passes
      <3>3. child' \in Children
        BY <2>3, <3>1, Zenon DEF TypeInv
      <3>4. pass'.at = "write" => child'[pass'.md][pass'.kind].mine
        BY <2>3, <3>2, Zenon DEF Mine, Continues
      <3>5. QED
        BY <1>3, <3>1, <3>2, <3>3, <3>4, CallMInv, Zenon
    <2>4. QED
      BY <1>3, <2>1, <2>2, <2>3, Zenon DEF ReadForApply
  <1>4. ASSUME MInv, Create PROVE MInv'
    <2>1. CASE Unable \/ invalidateMissingObservabilityKind
      BY <1>4, <2>1, UnableMInv, Zenon DEF Create
    <2>2. CASE Works /\ UNCHANGED <<cache, child>> /\ Error("False")
      BY <1>2, <1>4, <2>2, Zenon DEF Create
    <2>3. CASE /\ Works /\ UNCHANGED cache /\ Write(Current)
               /\ pass' = [pass EXCEPT !.at = "write", !.touched = FALSE, !.replaced = FALSE]
      <3>1. Step /\ pass \in Passes /\ TypeInv /\ GoneKept /\ Answered
        BY <1>4, <2>3, WorkingCall, Zenon DEF Create
      <3>2. Continues /\ pass'.kind = pass.kind
        BY <2>3, <3>1, Zenon DEF Continues, Passes
      <3>3. child' \in Children /\ child'[pass.md][pass.kind] = Current
        BY <1>1, <2>3, <3>1, WriteEffect, Zenon
      <3>4. child'[pass'.md][pass'.kind].mine
        BY <1>1, <3>2, <3>3, Zenon DEF Continues
      <3>5. QED
        BY <1>4, <3>1, <3>2, <3>3, <3>4, CallMInv, Zenon
    <2>4. QED
      BY <1>4, <2>1, <2>2, <2>3, Zenon DEF Create
  <1>5. ASSUME MInv, Apply PROVE MInv'
    <2>1. CASE Unable \/ invalidateMissingObservabilityKind
      BY <1>5, <2>1, UnableMInv, Zenon DEF Apply
    <2>2. CASE Works /\ UNCHANGED <<cache, child>> /\ Error("False")
      BY <1>2, <1>5, <2>2, Zenon DEF Apply
    <2>3. CASE Works /\ UNCHANGED cache /\ Write(Current) /\ Settled(reason)
      <3>1. Step /\ pass \in Passes /\ TypeInv /\ GoneKept /\ Answered
        BY <1>5, <2>3, WorkingCall, Zenon DEF Apply
      <3>2. Onward
        BY <2>3, <3>1, ShimReason, SettledEffect, Zenon
      <3> Continues /\ pass'.at \in {"start", "resync"}
        BY <3>2, Zenon DEF Onward
      <3>3. child' \in Children
        BY <1>1, <2>3, <3>1, WriteEffect, Zenon
      <3>4. QED
        BY <1>5, <3>1, <3>2, <3>3, CallMInv, Zenon
    <2>4. QED
      BY <1>5, <2>1, <2>2, <2>3, Zenon DEF Apply
  <1>6. QED
    BY <1>3, <1>4, <1>5, Zenon

LEMMA DeleteMInv == MInv /\ (ReadForDelete \/ Delete) => MInv'
  <1> DEFINE Children == [MDs -> [Kinds -> Objects \cup {None}]]
             status == IF pass.kind = "rule" THEN "False" ELSE "Unknown"
  <1>1. status \in Statuses /\ "ServiceMonitorDisabled" \in Reasons
    BY Zenon DEF Statuses, Reasons
  <1>2. ASSUME MInv, Step, Works, UNCHANGED <<cache, child>>, Error(status) PROVE MInv'
    <2>1. pass \in Passes /\ TypeInv /\ GoneKept /\ Answered
      BY <1>2, WorkingCall, Zenon
    <2>2. Continues /\ pass'.at = "resync"
      BY <1>1, <1>2, <2>1, ErrorEffect, Zenon DEF Failed
    <2>3. child' \in Children
      BY <1>2, <2>1, Zenon DEF TypeInv
    <2>4. QED
      BY <1>2, <2>1, <2>2, <2>3, CallMInv, Zenon
  <1>3. ASSUME MInv, Step, Works, UNCHANGED cache, Settled("ServiceMonitorDisabled"),
               UNCHANGED child \/ Write(None)
        PROVE  MInv'
    <2>1. pass \in Passes /\ TypeInv /\ GoneKept /\ Answered
      BY <1>3, WorkingCall, Zenon
    <2>2. Onward
      BY <1>1, <1>3, <2>1, SettledEffect, Zenon
    <2> Continues /\ pass'.at \in {"start", "resync"}
      BY <2>2, Zenon DEF Onward
    <2>3. child' \in Children
      <3>1. CASE UNCHANGED child
        BY <2>1, <3>1, Zenon DEF TypeInv
      <3>2. CASE Write(None)
        BY <2>1, <3>2, WriteEffect, Zenon
      <3>3. QED
        BY <1>3, <3>1, <3>2, Zenon
    <2>4. QED
      BY <1>3, <2>1, <2>2, <2>3, CallMInv, Zenon
  <1>4. ASSUME MInv, ReadForDelete PROVE MInv'
    <2>1. CASE Unable
      BY <1>4, <2>1, UnableMInv, Zenon DEF ReadForDelete
    <2>2. CASE Works /\ UNCHANGED <<cache, child>> /\ Settled("ServiceMonitorDisabled")
      BY <1>3, <1>4, <2>2, Zenon DEF ReadForDelete
    <2>3. CASE Works /\ UNCHANGED <<cache, child>> /\ Error(status)
      BY <1>2, <1>4, <2>3, Zenon DEF ReadForDelete
    <2>4. CASE /\ Works /\ UNCHANGED <<cache, child>>
               /\ pass' = [pass EXCEPT !.at = "delete", !.touched = FALSE, !.replaced = FALSE]
      <3>1. Step /\ pass \in Passes /\ TypeInv /\ GoneKept /\ Answered
        BY <1>4, <2>4, WorkingCall, Zenon DEF ReadForDelete
      <3>2. Continues /\ pass'.at = "delete"
        BY <2>4, <3>1, Zenon DEF Continues, Passes
      <3>3. child' \in Children
        BY <2>4, <3>1, Zenon DEF TypeInv
      <3>4. QED
        BY <1>4, <3>1, <3>2, <3>3, CallMInv, Zenon
    <2>5. QED
      BY <1>4, <2>1, <2>2, <2>3, <2>4, Zenon DEF ReadForDelete
  <1>5. ASSUME MInv, Delete PROVE MInv'
    <2>1. CASE Unable
      BY <1>5, <2>1, UnableMInv, Zenon DEF Delete
    <2>2. CASE Works /\ UNCHANGED <<cache, child>> /\ Error(status)
      BY <1>2, <1>5, <2>2, Zenon DEF Delete
    <2>3. CASE Works /\ UNCHANGED cache /\ Write(None) /\ Settled("ServiceMonitorDisabled")
      BY <1>3, <1>5, <2>3, Zenon DEF Delete
    <2>4. QED
      BY <1>5, <2>1, <2>2, <2>3, Zenon DEF Delete
  <1>6. QED
    BY <1>4, <1>5, Zenon

LEMMA BeginMInv == ASSUME NEW m \in MDs, MInv, Begin(m) PROVE MInv'
  <1>1. NoVerdict \in Verdicts /\ NoVerdict.absent = {}
    BY Zenon DEF NoVerdict, Verdicts, Statuses, Reasons
  <1>2. pass' \in Passes /\ pass'.at = "start" /\ pass'.out.absent = {}
    BY <1>1, Zenon DEF Begin, Passes, MInv, TypeInv, Kinds
  <1>3. due' \in [MDs -> Nat \cup {None}]
    BY Zenon DEF Begin, MInv, TypeInv
  <1>4. TypeInv'
    BY <1>2, <1>3, Zenon DEF Begin, MInv, TypeInv
  <1>5. WriteInv'
    BY <1>2, Zenon DEF WriteInv
  <1>6. AbsenceInv'
    BY <1>2, Zenon DEF Begin, MInv, AbsenceInv
  <1>7. QED
    BY <1>4, <1>5, <1>6, Zenon DEF MInv

LEMMA EndEffect ==
  ASSUME TypeInv, pass \in Passes, NEW after \in Nat \cup {None}, End(after)
  PROVE  /\ verdict' \in [MDs -> Verdicts] /\ verdict'[pass.md] = pass.out
         /\ \A m \in MDs : m # pass.md => verdict'[m] = verdict[m]
         /\ due' \in [MDs -> Nat \cup {None}] /\ pass' = None
  <1>1. pass.md \in MDs /\ pass.out \in Verdicts
    BY Zenon DEF Passes
  <1>2. QED
    BY <1>1, MonitoringAssumption, Zenon DEF End, TypeInv

(* The resync asks again, and then goes on or ends the pass.               *)
LEMMA ResyncCases ==
  ASSUME MInv, observabilityResync
  PROVE  /\ pass \in Passes /\ GoneKept /\ Answered
         /\ \/ \E after \in Nat \cup {None} : End(after)
            \/ pass' = [pass EXCEPT !.kind = "rule"] /\ UNCHANGED <<due, verdict>>
  <1>1. pass \in Passes /\ pass.kind \in Kinds /\ TypeInv /\ AbsenceInv
    BY Zenon DEF MInv, TypeInv, observabilityResync, Passes
  <1>2. AbsentTTL \in Nat /\ Resync \in Nat
    BY MonitoringAssumption, Zenon
  <1>3. CASE ~Enabled(pass.kind) /\ End(None) /\ Works /\ UNCHANGED cache
    <2>1. GoneKept /\ Answered
      BY <1>1, <1>3, FailsEffect, StoreEffect, Zenon
    <2>2. QED
      BY <1>1, <1>3, <2>1, Zenon
  <1>4. ASSUME NEW answer \in BOOLEAN \cup {None},
               /\ Enabled(pass.kind) /\ Has(pass.kind, answer)
               /\ IF answer # TRUE THEN End(AbsentTTL)
                  ELSE IF pass.kind = "monitor" /\ Enabled("rule")
                  THEN pass' = [pass EXCEPT !.kind = "rule"] /\ UNCHANGED <<due, verdict>>
                  ELSE End(Resync)
        PROVE  /\ GoneKept /\ Answered
               /\ \/ End(AbsentTTL) \/ End(Resync)
                  \/ pass' = [pass EXCEPT !.kind = "rule"] /\ UNCHANGED <<due, verdict>>
    <2>1. GoneKept /\ Answered
      BY <1>1, <1>4, HasEffect, Zenon
    <2>2. QED
      BY <1>4, <2>1, Zenon
  <1>5. QED
    BY <1>1, <1>2, <1>3, <1>4, Zenon DEF observabilityResync

LEMMA ResyncMInv == MInv /\ observabilityResync => MInv'
  <1> SUFFICES ASSUME MInv, observabilityResync PROVE MInv'
    BY Zenon
  <1>1. /\ TypeInv /\ AbsenceInv /\ UNCHANGED <<crd, spec, child>>
        /\ pass # None /\ pass.at = "resync"
    BY Zenon DEF MInv, observabilityResync
  <1>2. pass \in Passes /\ GoneKept /\ Answered
    BY ResyncCases, Zenon
  <1>3. /\ \A k \in Kinds : k \notin crd' => clock'[k].gone = 0
        /\ \A k \in Kinds : cache'[k] # None /\ ~cache'[k].present /\ cache'[k].left > 0
             => clock'[k].gone + cache'[k].left <= AbsentTTL
    BY <1>1, <1>2, Zenon DEF AbsenceInv, GoneKept, Answered
  <1>4. ASSUME NEW after \in Nat \cup {None}, End(after) PROVE MInv'
    <2>1. /\ verdict' \in [MDs -> Verdicts] /\ due' \in [MDs -> Nat \cup {None}]
          /\ pass' = None
      BY <1>1, <1>2, <1>4, EndEffect, Zenon
    <2>2. TypeInv'
      BY <1>1, <1>2, <2>1, Zenon DEF TypeInv, GoneKept, Answered
    <2>3. WriteInv' /\ AbsenceInv'
      BY <1>3, <2>1, Zenon DEF WriteInv, AbsenceInv
    <2>4. QED
      BY <2>2, <2>3, Zenon DEF MInv
  <1>5. CASE pass' = [pass EXCEPT !.kind = "rule"] /\ UNCHANGED <<due, verdict>>
    <2>1. Continues /\ pass'.at = "resync"
      BY <1>1, <1>2, <1>5, Zenon DEF Continues, Passes, Kinds
    <2>2. Step /\ child' \in [MDs -> [Kinds -> Objects \cup {None}]]
      BY <1>1, <1>5, Zenon DEF Step, TypeInv
    <2>3. QED
      BY <1>2, <2>1, <2>2, CallMInv, Zenon
  <1>6. QED
    BY <1>4, <1>5, ResyncCases, Zenon

-----------------------------------------------------------------------------
(* What others do *)

LEMMA UnsettledTyped ==
  ASSUME TypeInv
  PROVE  /\ Unsettled \in [Kinds -> Clocks]
         /\ \A k \in Kinds : Unsettled[k].gone = clock[k].gone
  BY Zenon DEF Unsettled, TypeInv, Clocks

LEMMA InstallMInv == ASSUME NEW k \in Kinds, MInv, Install(k) PROVE MInv'
  <1>1. TypeInv /\ AbsenceInv /\ UNCHANGED <<cache, spec, child, pass, due, verdict>>
        /\ crd' = crd \cup {k}
    BY Zenon DEF MInv, Install, Event
  <1>2. GoneKept
    <2> DEFINE told == {m \in MDs : Waits(m, k)}
    <2>1. clock' = [clock EXCEPT ![k] = [clock[k] EXCEPT !.age = 0, !.told = told]]
      BY <1>1, Zenon DEF Install, TypeInv, Clocks
    <2>2. told \in SUBSET MDs
      BY Zenon
    <2> HIDE DEF told
    <2>3. [clock[k] EXCEPT !.age = 0, !.told = told] \in Clocks
          /\ [clock[k] EXCEPT !.age = 0, !.told = told].gone = clock[k].gone
      BY <1>1, <2>2, Zenon DEF TypeInv, Clocks
    <2>4. QED
      BY <1>1, <2>1, <2>3, Zenon DEF GoneKept, TypeInv
  <1>3. TypeInv'
    BY <1>1, <1>2, Zenon DEF TypeInv, GoneKept
  <1>4. WriteInv'
    BY <1>1, Zenon DEF MInv, WriteInv, Mine
  <1>5. pass # None => pass.out.absent \subseteq Kinds
    BY <1>1, Zenon DEF TypeInv, Passes, Verdicts
  <1>6. AbsenceInv'
    BY <1>1, <1>2, <1>5, Zenon DEF AbsenceInv, GoneKept
  <1>7. QED
    BY <1>3, <1>4, <1>6, Zenon DEF MInv

LEMMA UninstallMInv == ASSUME NEW k \in Kinds, MInv, Uninstall(k) PROVE MInv'
  <1>1. /\ TypeInv /\ AbsenceInv /\ UNCHANGED <<cache, spec, due, verdict>>
        /\ crd' = crd \ {k} /\ AbsentTTL \in Nat
    BY MonitoringAssumption, Zenon DEF MInv, Uninstall, Event
  <1>2. /\ clock' \in [Kinds -> Clocks] /\ clock'[k].gone = 0
        /\ \A j \in Kinds : j # k => clock'[j].gone = clock[j].gone
    <2> DEFINE u == [Unsettled[k] EXCEPT !.gone = 0]
    <2>1. clock' = [Unsettled EXCEPT ![k] = u]
      BY <1>1, UnsettledTyped, Zenon DEF Uninstall, Clocks
    <2>2. u \in Clocks /\ u.gone = 0
      BY <1>1, UnsettledTyped, Zenon DEF Clocks
    <2> HIDE DEF u
    <2>3. QED
      BY <1>1, <2>1, <2>2, UnsettledTyped, Zenon
  <1>3. child' \in [MDs -> [Kinds -> Objects \cup {None}]]
        /\ \A m \in MDs, j \in Kinds : j # k => child'[m][j] = child[m][j]
    BY <1>1, Zenon DEF Uninstall, TypeInv
  <1>4. /\ pass' \in Passes \cup {None}
        /\ pass' # None => /\ pass # None /\ pass'.out = pass.out
                           /\ pass'.md = pass.md /\ pass'.kind = pass.kind /\ pass'.at = pass.at
                           /\ pass.kind # k => pass'.touched = pass.touched
                           /\ pass.kind = k => pass'.touched
    BY <1>1, Zenon DEF Uninstall, TypeInv, Passes
  <1>5. TypeInv'
    BY <1>1, <1>2, <1>3, <1>4, Zenon DEF TypeInv
  <1>6. WriteInv'
    <2> SUFFICES ASSUME pass' # None, pass'.at = "write", ~pass'.touched
                 PROVE  child'[pass'.md][pass'.kind].mine
      BY Zenon DEF WriteInv, Mine
    <2>1. pass # None /\ pass \in Passes /\ pass.kind # k
      BY <1>1, <1>4, Zenon DEF TypeInv
    <2>2. pass.md \in MDs /\ pass.kind \in Kinds
      BY <2>1, Zenon DEF Passes
    <2>3. QED
      BY <1>3, <1>4, <2>1, <2>2, Zenon DEF MInv, WriteInv, Mine
  <1>7. AbsenceInv'
    <2>1. \A j \in Kinds : clock[j].gone \in Nat
      BY <1>1, Zenon DEF TypeInv, Clocks
    <2>2. \A j \in Kinds : cache[j] # None => cache[j].left \in Nat
      BY <1>1, Zenon DEF TypeInv, Answers
    <2>3. \A j \in Kinds : j \notin crd' => clock'[j].gone = 0
      BY <1>1, <1>2, Zenon DEF AbsenceInv
    <2>4. \A j \in Kinds : clock'[j].gone <= clock[j].gone /\ clock'[j].gone \in Nat
      BY <1>2, <2>1
    <2>5. \A j \in Kinds : cache'[j] # None /\ ~cache'[j].present /\ cache'[j].left > 0
            => clock'[j].gone + cache'[j].left <= AbsentTTL
      BY <1>1, <2>1, <2>2, <2>4 DEF AbsenceInv
    <2>6. pass' # None => \A j \in pass'.out.absent : clock'[j].gone <= AbsentTTL
      <3>1. pass # None => pass.out.absent \subseteq Kinds
        BY <1>1, Zenon DEF TypeInv, Passes, Verdicts
      <3>2. QED
        BY <1>1, <1>4, <2>1, <2>4, <3>1 DEF AbsenceInv
    <2>7. QED
      BY <2>3, <2>5, <2>6, Zenon DEF AbsenceInv
  <1>8. QED
    BY <1>5, <1>6, <1>7, Zenon DEF MInv

LEMMA TamperMInv == ASSUME NEW m \in MDs, NEW k \in Kinds, MInv, Tamper(m, k) PROVE MInv'
  <1>1. /\ TypeInv /\ AbsenceInv /\ UNCHANGED <<crd, cache, spec, due, verdict>>
        /\ clock' = Unsettled
    BY Zenon DEF MInv, Tamper, Event
  <1>2. GoneKept
    BY <1>1, UnsettledTyped, Zenon DEF GoneKept
  <1>3. PICK object \in Objects \cup {None}, fresh \in BOOLEAN :
          /\ child' = [child EXCEPT ![m][k] = object]
          /\ pass' = IF pass # None /\ pass.md = m /\ pass.kind = k
                     THEN [pass EXCEPT !.touched = TRUE, !.replaced = @ \/ fresh] ELSE pass
    BY Zenon DEF Tamper
  <1>4. child' \in [MDs -> [Kinds -> Objects \cup {None}]]
        /\ \A n \in MDs, j \in Kinds : <<n, j>> # <<m, k>> => child'[n][j] = child[n][j]
    BY <1>1, <1>3, Zenon DEF TypeInv
  <1>5. /\ pass' \in Passes \cup {None}
        /\ pass' # None => /\ pass # None /\ pass'.out = pass.out
                           /\ pass'.md = pass.md /\ pass'.kind = pass.kind /\ pass'.at = pass.at
                           /\ <<pass.md, pass.kind>> # <<m, k>> => pass'.touched = pass.touched
                           /\ <<pass.md, pass.kind>> = <<m, k>> => pass'.touched
    <2>1. CASE pass # None /\ pass.md = m /\ pass.kind = k
      <3>1. pass \in Passes
        BY <1>1, <2>1, Zenon DEF TypeInv
      <3> DEFINE r == pass.replaced \/ fresh
      <3>2. r \in BOOLEAN
        BY Zenon
      <3>3. pass' = [pass EXCEPT !.touched = TRUE, !.replaced = r]
        BY <1>3, <2>1, Zenon
      <3> HIDE DEF r
      <3>4. QED
        BY <2>1, <3>1, <3>2, <3>3, Zenon DEF Passes
    <2>2. CASE ~(pass # None /\ pass.md = m /\ pass.kind = k)
      <3>1. pass' = pass
        BY <1>3, <2>2, Zenon
      <3>2. QED
        BY <1>1, <2>2, <3>1, Zenon DEF TypeInv
    <2>3. QED
      BY <2>1, <2>2, Zenon
  <1>6. TypeInv'
    BY <1>1, <1>2, <1>4, <1>5, Zenon DEF TypeInv, GoneKept
  <1>7. WriteInv'
    <2> SUFFICES ASSUME pass' # None, pass'.at = "write", ~pass'.touched
                 PROVE  child'[pass'.md][pass'.kind].mine
      BY Zenon DEF WriteInv, Mine
    <2>1. pass # None /\ pass \in Passes /\ <<pass.md, pass.kind>> # <<m, k>>
      BY <1>1, <1>5, Zenon DEF TypeInv
    <2>2. pass.md \in MDs /\ pass.kind \in Kinds
      BY <2>1, Zenon DEF Passes
    <2>3. QED
      BY <1>4, <1>5, <2>1, <2>2 DEF MInv, WriteInv, Mine
  <1>8. AbsenceInv'
    <2>1. pass # None => pass.out.absent \subseteq Kinds
      BY <1>1, Zenon DEF TypeInv, Passes, Verdicts
    <2>2. pass' # None => \A j \in pass'.out.absent : clock'[j].gone <= AbsentTTL
      BY <1>1, <1>2, <1>5, <2>1, Zenon DEF AbsenceInv, GoneKept
    <2>3. QED
      BY <1>1, <1>2, <2>2, Zenon DEF AbsenceInv, GoneKept
  <1>9. QED
    BY <1>6, <1>7, <1>8, Zenon DEF MInv

LEMMA EditMInv == ASSUME NEW m \in MDs, MInv, Edit(m) PROVE MInv'
  <1>1. /\ TypeInv /\ AbsenceInv /\ UNCHANGED <<crd, cache, child, pass, verdict>>
        /\ clock' = Unsettled
    BY Zenon DEF MInv, Edit, Event
  <1>2. GoneKept
    BY <1>1, UnsettledTyped, Zenon DEF GoneKept
  <1>3. TypeInv'
    BY <1>1, <1>2 DEF TypeInv, GoneKept, Edit, Specs
  <1>4. WriteInv'
    BY <1>1, Zenon DEF MInv, WriteInv, Mine
  <1>5. pass # None => pass.out.absent \subseteq Kinds
    BY <1>1, Zenon DEF TypeInv, Passes, Verdicts
  <1>6. AbsenceInv'
    BY <1>1, <1>2, <1>5, Zenon DEF AbsenceInv, GoneKept
  <1>7. QED
    BY <1>3, <1>4, <1>6, Zenon DEF MInv

LEMMA TickMInv == MInv /\ Tick => MInv'
  <1> SUFFICES ASSUME MInv, Tick PROVE MInv'
    BY Zenon
  <1>1. /\ TypeInv /\ AbsenceInv /\ UNCHANGED <<crd, spec, child, pass, verdict>>
        /\ pass = None /\ AbsentTTL \in Nat
    BY MonitoringAssumption, Zenon DEF MInv, Tick
  <1>2. due' \in [MDs -> Nat \cup {None}]
    <2>1. \A m \in MDs : due[m] \in Nat \cup {None} /\ due[m] # 0
      BY <1>1, Zenon DEF TypeInv, Tick
    <2>2. \A m \in MDs : (IF due[m] = None THEN None ELSE due[m] - 1) \in Nat \cup {None}
      BY <2>1
    <2>3. QED
      BY <2>2, Zenon DEF Tick
  <1>3. ASSUME NEW k \in Kinds
        PROVE  /\ cache'[k] \in Answers \cup {None}
               /\ cache'[k] # None => /\ cache[k] # None /\ cache[k] \in Answers
                                      /\ cache'[k].present = cache[k].present
                                      /\ cache'[k].left = IF cache[k].left > 0
                                                         THEN cache[k].left - 1
                                                         ELSE cache[k].left
    <2>1. cache'[k] = IF lookup(k) THEN [cache[k] EXCEPT !.left = @ - 1] ELSE cache[k]
      BY Zenon DEF Tick
    <2>2. CASE lookup(k)
      BY <1>1, <2>1, <2>2 DEF TypeInv, Answers, lookup
    <2>3. CASE ~lookup(k)
      BY <1>1, <2>1, <2>3 DEF TypeInv, Answers, lookup
    <2>4. QED
      BY <2>2, <2>3, Zenon
  <1>4. ASSUME NEW k \in Kinds
        PROVE  /\ clock'[k] \in Clocks
               /\ clock'[k].gone = IF k \in crd THEN AtMost(clock[k].gone, AbsentTTL + 1) ELSE 0
    <2> DEFINE a == IF clock[k].age = None THEN None
                    ELSE AtMost(clock[k].age, 2 * AbsentTTL + 1)
               g == IF k \in crd THEN AtMost(clock[k].gone, AbsentTTL + 1) ELSE 0
    <2>1. clock'[k] = [clock[k] EXCEPT !.age = a, !.gone = g] /\ clock[k] \in Clocks
      BY <1>1, Zenon DEF Tick, TypeInv, Clocks
    <2>2. a \in Nat \cup {None} /\ g \in Nat
      BY <1>1, <2>1 DEF AtMost, Clocks
    <2> HIDE DEF a, g
    <2>3. clock'[k] \in Clocks /\ clock'[k].gone = g
      BY <2>1, <2>2, Zenon DEF Clocks
    <2>4. QED
      BY <2>3, Zenon DEF g
  <1>5. cache' \in [Kinds -> Answers \cup {None}] /\ clock' \in [Kinds -> Clocks]
    <2>1. cache' = [k \in Kinds |-> cache'[k]] /\ clock' = [k \in Kinds |-> clock'[k]]
      BY Zenon DEF Tick
    <2>2. QED
      BY <1>3, <1>4, <2>1, Zenon
  <1>6. TypeInv'
    BY <1>1, <1>2, <1>5, Zenon DEF TypeInv
  <1>7. ASSUME NEW k \in Kinds, cache'[k] # None, ~cache'[k].present, cache'[k].left > 0
        PROVE  clock'[k].gone + cache'[k].left <= AbsentTTL
    <2>1. /\ cache[k].left \in Nat /\ clock[k].gone \in Nat /\ cache[k].left > 0
          /\ clock[k].gone + cache[k].left <= AbsentTTL /\ cache'[k].left = cache[k].left - 1
      BY <1>1, <1>3, <1>7, Zenon DEF AbsenceInv, TypeInv, Answers, Clocks
    <2>2. QED
      BY <1>1, <1>4, <2>1 DEF AtMost
  <1>8. AbsenceInv' /\ WriteInv'
    BY <1>1, <1>4, <1>7, Zenon DEF AbsenceInv, WriteInv
  <1>9. QED
    BY <1>6, <1>8, Zenon DEF MInv

LEMMA InitMInv == Init => MInv
  <1> SUFFICES ASSUME Init PROVE MInv
    BY Zenon
  <1>1. NoVerdict \in Verdicts /\ [on |-> Kinds, shim |-> TRUE] \in Specs
    BY Zenon DEF NoVerdict, Verdicts, Statuses, Reasons, Specs
  <1>2. ASSUME NEW k \in Kinds PROVE clock[k] \in Clocks /\ (k \notin crd => clock[k].gone = 0)
    BY MonitoringAssumption DEF Init, Clocks
  <1>3. clock \in [Kinds -> Clocks]
    BY <1>2, Zenon DEF Init
  <1>4. TypeInv
    BY <1>1, <1>3, Zenon DEF Init, TypeInv
  <1>5. WriteInv /\ AbsenceInv
    BY <1>2, Zenon DEF Init, WriteInv, AbsenceInv
  <1>6. QED
    BY <1>4, <1>5, Zenon DEF MInv

LEMMA MInvStep == MInv /\ [Next]_vars => MInv'
  <1> SUFFICES ASSUME MInv, [Next]_vars PROVE MInv'
    BY Zenon
  <1>1. CASE Work
    BY <1>1, BeginMInv, ProbeMInv, ApplyMInv, DeleteMInv, ResyncMInv, Zenon DEF Work
  <1>2. CASE Tick
    BY <1>2, TickMInv, Zenon
  <1>3. CASE \E k \in Kinds : Install(k) \/ Uninstall(k)
    BY <1>3, InstallMInv, UninstallMInv, Zenon
  <1>4. CASE \E m \in MDs, k \in Kinds : Tamper(m, k)
    BY <1>4, TamperMInv, Zenon
  <1>5. CASE \E m \in MDs : Edit(m)
    BY <1>5, EditMInv, Zenon
  <1>6. CASE UNCHANGED vars
    BY <1>6, Zenon DEF vars, MInv, TypeInv, WriteInv, AbsenceInv, Mine
  <1>7. QED
    BY <1>1, <1>2, <1>3, <1>4, <1>5, <1>6, Zenon DEF Next

LEMMA MInvInductive == Spec => []MInv
  BY InitMInv, MInvStep, PTL DEF Spec

(* The reconciler writes only to monitoring objects that are its own at    *)
(* that moment, and deletes only what it has read as its own, however an   *)
(* object is replaced between its calls (applyObservabilityChild,          *)
(* deleteObservabilityChild).                                              *)
THEOREM OthersAlwaysUntouched == Spec => OthersUntouched
  <1> DEFINE Safe == \A m \in MDs, k \in Kinds :
                       child[m][k] # None /\ ~child[m][k].mine /\ child'[m][k] # child[m][k]
                         => child'[m][k] = None /\ pass.at = "delete" /\ ~pass.replaced
  <1>1. MInv /\ Work => Safe
    <2> SUFFICES ASSUME MInv, Work PROVE Safe
      BY Zenon
    <2>1. TypeInv
      BY Zenon DEF MInv
    <2>2. CASE UNCHANGED child
      BY <2>2, Zenon
    <2>3. ASSUME Step, NEW object \in Objects \cup {None}, Write(object),
                 ~Mine.mine /\ Mine # None => object = None /\ pass.at = "delete" /\ ~pass.replaced
          PROVE  Safe
      <3>1. pass \in Passes
        BY <2>1, <2>3, Zenon DEF TypeInv, Step
      <3>2. pass.md \in MDs /\ pass.kind \in Kinds
        BY <3>1, Zenon DEF Passes
      <3>3. /\ child'[pass.md][pass.kind] = object
            /\ \A m \in MDs, k \in Kinds :
                 <<m, k>> # <<pass.md, pass.kind>> => child'[m][k] = child[m][k]
        BY <2>1, <2>3, <3>1, WriteEffect, Zenon
      <3>4. QED
        BY <2>3, <3>2, <3>3, Zenon DEF Mine
    <2>4. Current \in Objects
      BY Zenon DEF Current, Objects
    <2>5. CASE Create
      BY <2>2, <2>3, <2>4, <2>5, Zenon DEF Create, Unable, invalidateMissingObservabilityKind
    <2>6. CASE Apply
      <3>1. pass # None /\ pass.at = "write" /\ ~pass.touched => Mine.mine
        BY Zenon DEF MInv, WriteInv
      <3>2. QED
        BY <2>2, <2>3, <2>4, <2>6, <3>1, Zenon
           DEF Apply, Unable, invalidateMissingObservabilityKind, conflicts, Step
    <2>7. CASE Delete
      BY <2>2, <2>3, <2>7, Zenon DEF Delete, Unable
    <2>8. CASE \/ \E m \in MDs : Begin(m)
               \/ Probe \/ ReadForApply \/ ReadForDelete \/ observabilityResync
      <3>1. UNCHANGED child
        BY <2>8, Zenon DEF Begin, Probe, ReadForApply, ReadForDelete, observabilityResync, Unable,
                    invalidateMissingObservabilityKind
      <3>2. QED
        BY <2>2, <3>1, Zenon
    <2>9. QED
      BY <2>5, <2>6, <2>7, <2>8, Zenon DEF Work
  <1>2. MInv /\ [Next]_vars => [Work => Safe]_vars
    BY <1>1, Zenon
  <1>3. QED
    BY <1>2, MInvInductive, PTL DEF Spec, OthersUntouched

(* An absence that a pass reports was verified at most one lifetime of a   *)
(* negative answer before, however calls fail (Prober.Has does not keep a  *)
(* failed probe).                                                          *)
THEOREM AbsenceAlwaysVerified == Spec => AbsenceWasVerified
  <1> DEFINE Verified == \A m \in MDs : verdict'[m] # verdict[m] =>
                            \A k \in verdict'[m].absent : clock[k].gone <= AbsentTTL
  <1>1. MInv /\ Next => Verified
    <2> SUFFICES ASSUME MInv, Next PROVE Verified
      BY Zenon
    <2>1. CASE UNCHANGED verdict
      BY <2>1, Zenon
    <2>2. CASE observabilityResync
      <3>1. TypeInv /\ pass \in Passes /\ pass # None /\ AbsenceInv
        BY <2>2, ResyncCases, Zenon DEF MInv, observabilityResync
      <3>2. ASSUME NEW after \in Nat \cup {None}, End(after) PROVE Verified
        BY <3>1, <3>2, EndEffect, Zenon DEF AbsenceInv
      <3>3. QED
        BY <2>1, <2>2, <3>2, ResyncCases, Zenon
    <2>3. CASE Work /\ ~observabilityResync
      <3>1. UNCHANGED verdict
        BY <2>3, Zenon DEF Work, Begin, Probe, ReadForApply, Create, Apply, ReadForDelete, Delete, Step
      <3>2. QED
        BY <2>1, <3>1, Zenon
    <2>4. CASE ~Work
      <3>1. UNCHANGED verdict
        BY <2>4, Zenon DEF Next, Tick, Install, Uninstall, Tamper, Edit, Event
      <3>2. QED
        BY <2>1, <3>1, Zenon
    <2>5. QED
      BY <2>2, <2>3, <2>4, Zenon
  <1>2. MInv /\ [Next]_vars => [Verified]_vars
    BY <1>1, Zenon
  <1>3. QED
    BY <1>2, MInvInductive, PTL DEF Spec, AbsenceWasVerified

-----------------------------------------------------------------------------
(* An installation is noticed *)

(* What goes wrong ends the history of every installation.                 *)
LEMMA UncleanKept ==
  ASSUME \A k \in Kinds : clock'[k].age = None
  PROVE  FreshInv' /\ LiveInv'
  BY Zenon DEF FreshInv, LiveInv, Live, Aged

LEMMA FailsUnclean ==
  ASSUME TypeInv, Fails
  PROVE  \A k \in Kinds : clock'[k].age = None
  BY Zenon DEF Fails, TypeInv, Clocks

LEMMA UnsettledUnclean ==
  ASSUME TypeInv
  PROVE  \A k \in Kinds : Unsettled[k].age = None
  BY Zenon DEF Unsettled, TypeInv, Clocks

(* What a call does to the cache.                                          *)
Refreshed ==
  /\ \A k \in Kinds : Stale(k)' => Stale(k)
  /\ \A k \in Kinds : k # pass.kind => cache'[k] = cache[k]
  /\ \A k \in crd : KnownAbsent(k)' => cache'[k] = cache[k]

LEMMA StoreRefreshes ==
  ASSUME TypeInv, pass \in Passes, UNCHANGED crd,
         \/ cache' = store(pass.kind, pass.kind \in crd)
         \/ cache' = Invalidate(pass.kind) \/ cache' = cache
  PROVE  Refreshed
  <1>1. pass.kind \in Kinds /\ crd \subseteq Kinds
    BY Zenon DEF Passes, TypeInv
  <1>2. CASE cache' = cache
    BY <1>2, Zenon DEF Refreshed, Stale, lookup
  <1>3. CASE cache' = Invalidate(pass.kind)
    <2>1. cache'[pass.kind] = None /\ \A k \in Kinds : k # pass.kind => cache'[k] = cache[k]
      BY <1>1, <1>3, Zenon DEF Invalidate, TypeInv
    <2>2. ASSUME NEW k \in Kinds PROVE k = pass.kind => ~Stale(k)' /\ ~KnownAbsent(k)'
      BY <2>1, Zenon DEF Stale, KnownAbsent, lookup
    <2>3. \A k \in Kinds : Stale(k)' => Stale(k)
      BY <2>1, <2>2, Zenon DEF Stale, lookup
    <2>4. QED
      BY <1>1, <2>1, <2>2, <2>3, Zenon DEF Refreshed
  <1>4. CASE cache' = store(pass.kind, pass.kind \in crd)
    <2>1. /\ cache'[pass.kind].present = (pass.kind \in crd)
          /\ \A k \in Kinds : k # pass.kind => cache'[k] = cache[k]
      BY <1>1, <1>4, Zenon DEF store, TypeInv
    <2>2. ASSUME NEW k \in Kinds
          PROVE  k = pass.kind => ~Stale(k)' /\ (k \in crd => ~KnownAbsent(k)')
      BY <2>1, Zenon DEF Stale, KnownAbsent
    <2>3. \A k \in Kinds : Stale(k)' => Stale(k)
      BY <2>1, <2>2, Zenon DEF Stale, lookup
    <2>4. QED
      BY <1>1, <2>1, <2>2, <2>3, Zenon DEF Refreshed
  <1>5. QED
    BY <1>2, <1>3, <1>4, Zenon

(* An answer of Has, and what it says.                                     *)
LEMMA HasRefreshes ==
  ASSUME TypeInv, pass \in Passes, UNCHANGED crd, NEW answer \in BOOLEAN \cup {None},
         Has(pass.kind, answer)
  PROVE  /\ Refreshed
         /\ answer = TRUE => /\ Works /\ ~KnownAbsent(pass.kind)
                             /\ pass.kind \in crd \/ Stale(pass.kind)
         /\ answer = FALSE => Works /\ \A k \in Kinds : k = pass.kind => KnownAbsent(k)'
         /\ answer = None => Fails
  <1>1. pass.kind \in Kinds
    BY Zenon DEF Passes
  <1>2. Refreshed
    BY StoreRefreshes, Zenon DEF Has
  <1>3. CASE lookup(pass.kind)
    <2>1. /\ cache[pass.kind] \in Answers /\ answer = cache[pass.kind].present
          /\ cache' = cache /\ Works /\ cache[pass.kind] # None /\ cache[pass.kind].left > 0
      BY <1>1, <1>3, Zenon DEF Has, lookup, TypeInv
    <2>2. answer \in BOOLEAN /\ answer # None
      BY <2>1, NoneAssumption, Zenon DEF Answers
    <2>3. answer = TRUE => ~KnownAbsent(pass.kind) /\ (pass.kind \in crd \/ Stale(pass.kind))
      BY <1>3, <2>1, Zenon DEF KnownAbsent, Stale
    <2>4. answer = FALSE => \A k \in Kinds : k = pass.kind => KnownAbsent(k)'
      BY <2>1, Zenon DEF KnownAbsent, lookup
    <2>5. QED
      BY <1>2, <2>1, <2>2, <2>3, <2>4, Zenon
  <1>4. CASE ~lookup(pass.kind)
    <2>1. CASE answer = (pass.kind \in crd) /\ cache' = store(pass.kind, pass.kind \in crd) /\ Works
      <3> DEFINE a == [present |-> pass.kind \in crd,
                       left |-> IF pass.kind \in crd THEN PresentTTL ELSE AbsentTTL]
      <3>1. cache'[pass.kind] = a
        BY <1>1, <2>1, Zenon DEF store, TypeInv
      <3>2. a \in Answers /\ a.left > 0 /\ (pass.kind \notin crd => ~a.present)
        <4>1. AbsentTTL \in Nat /\ PresentTTL \in Nat /\ AbsentTTL > 0 /\ PresentTTL > 0
          BY MonitoringAssumption
        <4>2. a.left > 0 /\ (pass.kind \notin crd => ~a.present)
          BY <4>1, Zenon
        <4>3. a \in Answers
          BY <4>1 DEF Answers
        <4>4. QED
          BY <4>2, <4>3, Zenon
      <3> HIDE DEF a
      <3>3. a # None
        BY <3>2, NoneAssumption, Zenon
      <3>4. pass.kind \notin crd => \A k \in Kinds : k = pass.kind => KnownAbsent(k)'
        BY <3>1, <3>2, <3>3, Zenon DEF KnownAbsent, lookup
      <3>5. answer \in BOOLEAN /\ answer # None
        <4>1. (pass.kind \in crd) \in BOOLEAN
          OBVIOUS
        <4> answer \in BOOLEAN
          BY <2>1, <4>1, Zenon
        <4>2. QED
          BY <4>1, NoneAssumption, Zenon
      <3>6. ~KnownAbsent(pass.kind)
        BY <1>4, Zenon DEF KnownAbsent
      <3>7. (answer = TRUE => pass.kind \in crd) /\ (answer = FALSE => pass.kind \notin crd)
        BY <2>1, Zenon
      <3>8. QED
        BY <1>2, <2>1, <3>4, <3>5, <3>6, <3>7, Zenon
    <2>2. CASE answer = None /\ UNCHANGED cache /\ Fails
      <3>1. answer # TRUE /\ answer # FALSE
        BY <2>2, NoneAssumption, Zenon
      <3>2. QED
        BY <1>2, <2>2, <3>1, Zenon
    <2>3. QED
      BY <1>4, <2>1, <2>2, Zenon DEF Has
  <1>5. QED
    BY <1>3, <1>4, Zenon

(* What the pass has noted survives a call.                                *)
LEMMA CallWait ==
  ASSUME TypeInv, WaitInv, pass \in Passes, Step, Continues,
         \A k \in pass.out.absent : cache'[k] = cache[k],
         pass'.at = "resync" =>
           \/ pass'.kind = IF Enabled("monitor") THEN "monitor" ELSE "rule"
           \/ pass'.kind = "rule" /\ "monitor" \notin pass.out.absent,
         pass'.at # "resync" => /\ pass'.kind \notin pass.out.absent
                                /\ "monitor" \notin pass.out.absent /\ ~pass'.failed,
         pass'.at = "delete" => pass'.kind \notin pass.spec.on
  PROVE  WaitInv'
  <1>1. /\ pass # None /\ UNCHANGED <<crd, spec, due, verdict>>
        /\ pass'.md = pass.md /\ pass'.spec = pass.spec /\ pass'.out.absent = pass.out.absent
    BY Zenon DEF Step, Continues
  <1>2. pass' # None
    BY NoneAssumption, Zenon DEF Continues
  <1>3. \A k \in pass'.out.absent : KnownAbsent(k)'
    <2>1. \A k \in pass.out.absent : KnownAbsent(k)
      BY <1>1, Zenon DEF WaitInv
    <2>2. QED
      BY <1>1, <2>1, Zenon DEF KnownAbsent, lookup
  <1>4. /\ pass'.kind = "rule" => "monitor" \notin pass'.out.absent
        /\ pass'.at = "resync" /\ pass'.kind = "monitor" => "monitor" \in pass'.spec.on
    BY <1>1, Zenon DEF WaitInv, Enabled
  <1>5. \A m \in MDs, k \in Kinds : Waits(m, k)' /\ ~Running(m)'
          => due'[m] # None /\ due'[m] <= AbsentTTL
    <2> SUFFICES ASSUME NEW m \in MDs, NEW k \in Kinds, Waits(m, k)', ~Running(m)'
                 PROVE  due'[m] # None /\ due'[m] <= AbsentTTL
      BY Zenon
    <2>1. m # pass.md
      BY <1>1, <1>2, Zenon DEF Running
    <2>2. Waits(m, k) /\ ~Running(m)
      BY <1>1, <2>1, Zenon DEF Waits, Running
    <2>3. QED
      BY <1>1, <2>2, Zenon DEF WaitInv
  <1>6. /\ pass'.out.absent \subseteq pass'.spec.on
        /\ due'[pass'.md] = 0 \/ (due'[pass'.md] = None /\ pass'.spec = spec'[pass'.md])
    BY <1>1, Zenon DEF WaitInv
  <1>7. QED
    BY <1>1, <1>3, <1>4, <1>5, <1>6, Zenon DEF WaitInv

(* What a call that works leaves behind.                                   *)
Effect ==
  /\ pass' \in Passes /\ pass'.md = pass.md /\ pass'.spec = pass.spec
  /\ pass.out.absent \subseteq pass'.out.absent /\ (pass.failed => pass'.failed)
  /\ Refreshed
  /\ \A m \in MDs : m # pass.md => child'[m] = child[m]
  /\ \A k \in pass.spec.on :
       child'[pass.md][k] # Current =>
         /\ child[pass.md][k] # Current
         /\ Passed(k)' => Passed(k) \/ k \in pass'.out.absent \/ pass'.failed

(* And in a pass that has started after an installation.                   *)
FreshEffect ==
  /\ ~pass'.touched /\ ~pass'.replaced
  /\ pass'.at = "create" => child'[pass.md][pass'.kind] = None
  /\ pass'.at = "delete" => child'[pass.md][pass'.kind].mine
  /\ \A m \in MDs : Theirs(m) => Theirs(m)'
  /\ ~Theirs(pass.md) =>
       /\ \A j \in pass.spec.on :
            Passed(j)' /\ Stale(j)' => Passed(j) \/ (j = "monitor" /\ "rule" \notin crd)
       /\ pass'.failed => pass.failed \/ (Applying /\ pass.kind \notin crd)
       /\ Applying' => /\ pass'.kind = pass.kind
                       /\ \/ Applying \/ pass.kind \in crd
                          \/ pass.kind \in pass.spec.on /\ Stale(pass.kind)

LEMMA EffectKept ==
  ASSUME NInv, pass \in Passes, Step, Effect, UNCHANGED clock,
         (\E k \in Kinds : Aged(k)) => FreshEffect
  PROVE  FreshInv' /\ LiveInv'
  <1>1. /\ pass # None /\ UNCHANGED <<crd, spec, due, verdict>> /\ TypeInv
        /\ pass'.md = pass.md /\ pass'.spec = pass.spec /\ pass.md \in MDs
        /\ pass.out.absent \subseteq pass'.out.absent /\ (pass.failed => pass'.failed)
    BY Zenon DEF Step, Effect, NInv, MInv, Passes
  <1>2. pass' # None
    BY NoneAssumption, Zenon DEF Effect
  <1>3. \A k \in Kinds : (Live(k)' <=> Live(k)) /\ (Aged(k)' <=> Aged(k))
    BY Zenon DEF Live, Aged
  <1>4. \A k \in Kinds : Stale(k)' => Stale(k)
    BY Zenon DEF Effect, Refreshed
  <1>5. FreshInv'
    <2> SUFFICES ASSUME \E k \in Kinds : Aged(k)
                 PROVE  /\ pass'.spec = spec'[pass'.md] /\ due'[pass'.md] = None
                        /\ ~pass'.touched /\ ~pass'.replaced
                        /\ pass'.at = "create" => Mine' = None
                        /\ pass'.at = "delete" => Mine' = None \/ Mine'.mine
      BY <1>3, Zenon DEF FreshInv
    <2>1. pass.spec = spec[pass.md] /\ due[pass.md] = None
      BY <1>1, Zenon DEF NInv, FreshInv
    <2>2. QED
      BY <1>1, <2>1, Zenon DEF FreshEffect, Mine
  <1>6. ASSUME NEW k \in Kinds, Live(k)
        PROVE  /\ k \in crd'
               /\ KnownAbsent(k)' => cache'[k].left + clock'[k].age <= AbsentTTL
    BY <1>1, <1>6, Zenon DEF NInv, LiveInv, Effect, Refreshed, KnownAbsent, lookup
  <1>7. ASSUME NEW k \in Kinds, Live(k), NEW m \in clock[k].told, m # pass.md
        PROVE  /\ k \in spec'[m].on /\ ~Running(m)'
               /\ child'[m][k] # Current /\ ~Theirs(m)' => Between(m, k)'
    <2>1. m \in MDs /\ k \in spec[m].on /\ ~Running(m)
      BY <1>1, <1>7, Zenon DEF NInv, LiveInv, TypeInv, Clocks, Running
    <2>2. child'[m] = child[m] /\ (Theirs(m)' <=> Theirs(m))
      BY <1>7, <2>1, Zenon DEF Effect, Theirs
    <2>3. child[m][k] # Current /\ ~Theirs(m) => Between(m, k)
      BY <1>7, <2>1, Zenon DEF NInv, LiveInv
    <2>4. spec[m].on \subseteq Kinds
      BY <1>1, <2>1, Zenon DEF TypeInv, Specs
    <2>5. Between(m, k) => Between(m, k)'
      BY <1>1, <1>4, <2>4, Zenon DEF Between
    <2>6. QED
      BY <1>1, <1>2, <1>7, <2>1, <2>2, <2>3, <2>5, Zenon DEF Running
  <1>8. ASSUME NEW k \in Kinds, Live(k), NEW m \in clock[k].told, m = pass.md
        PROVE  /\ k \in spec'[m].on /\ Running(m)' /\ k \in pass'.spec.on
               /\ child'[m][k] # Current => ~Passed(k)' \/ k \in pass'.out.absent \/ pass'.failed
               /\ child'[m][k] # Current /\ ~Theirs(m)' /\ Aged(k) => InPass(m, k)'
    <2>1. Running(m) /\ Running(m)' /\ m \in MDs
      BY <1>1, <1>2, <1>8, Zenon DEF Running
    <2>2. k \in spec[m].on /\ k \in pass.spec.on
      BY <1>8, <2>1, Zenon DEF NInv, LiveInv
    <2>3. ASSUME child'[m][k] # Current
          PROVE  ~Passed(k)' \/ k \in pass'.out.absent \/ pass'.failed
      <3>1. /\ child[m][k] # Current
            /\ Passed(k)' => Passed(k) \/ k \in pass'.out.absent \/ pass'.failed
        BY <1>8, <2>2, <2>3, Zenon DEF Effect
      <3>2. Passed(k) => k \in pass.out.absent \/ pass.failed
        BY <1>8, <2>1, <3>1, Zenon DEF NInv, LiveInv
      <3>3. QED
        BY <1>1, <3>1, <3>2, Zenon
    <2>4. ASSUME child'[m][k] # Current, ~Theirs(m)', Aged(k) PROVE InPass(m, k)'
      <3>1. FreshEffect /\ pass.spec = spec[m]
        BY <1>1, <1>8, <2>4, Zenon DEF NInv, FreshInv
      <3>2. ~Theirs(m) /\ child[m][k] # Current
        BY <1>8, <2>1, <2>2, <2>4, <3>1, Zenon DEF FreshEffect, Effect
      <3>3. InPass(m, k) /\ k \in crd
        BY <1>8, <2>1, <2>4, <3>2, Zenon DEF NInv, LiveInv
      <3>4. spec[m].on \subseteq Kinds
        BY <1>1, <2>1, Zenon DEF TypeInv, Specs
      <3>5. ASSUME NEW j \in spec[m].on, Passed(j)', Stale(j)' PROVE FALSE
        <4>1. Passed(j) \/ (j = "monitor" /\ "rule" \notin crd)
          BY <1>8, <3>1, <3>2, <3>5, Zenon DEF FreshEffect
        <4>2. Stale(j) /\ ~Passed(j)
          BY <1>4, <3>3, <3>4, <3>5, Zenon DEF InPass
        <4>3. k = "monitor" /\ j = k
          BY <3>3, <4>1, <4>2, Zenon DEF Kinds
        <4>4. QED
          BY <3>3, <4>2, <4>3, Zenon DEF Stale
      <3>6. ASSUME clock[k].age > AbsentTTL
            PROVE  /\ clock[k].age <= 2 * AbsentTTL
                   /\ \A j \in spec[m].on : ~Stale(j)'
                   /\ ~pass'.failed
                   /\ Applying' => pass'.kind \in crd
        <4>1. /\ clock[k].age <= 2 * AbsentTTL /\ \A j \in spec[m].on : ~Stale(j)
              /\ ~pass.failed /\ (Applying => pass.kind \in crd)
          BY <3>3, <3>6, Zenon DEF InPass
        <4>2. ~pass'.failed
          BY <1>8, <3>1, <3>2, <4>1, Zenon DEF FreshEffect
        <4>3. Applying' => pass'.kind \in crd
          BY <1>8, <3>1, <3>2, <4>1, Zenon DEF FreshEffect
        <4>4. QED
          BY <1>4, <3>4, <4>1, <4>2, <4>3, Zenon
      <3>7. QED
        BY <1>1, <3>5, <3>6, Zenon DEF InPass
    <2>5. QED
      BY <1>1, <2>1, <2>2, <2>3, <2>4, Zenon
  <1>9. LiveInv'
    <2> SUFFICES ASSUME NEW k \in Kinds, Live(k)
                 PROVE  \A m \in clock'[k].told :
                          /\ k \in spec'[m].on
                          /\ Running(m)' => k \in pass'.spec.on
                          /\ Running(m)' /\ child'[m][k] # Current
                               => ~Passed(k)' \/ k \in pass'.out.absent \/ pass'.failed
                          /\ Running(m)' /\ child'[m][k] # Current /\ ~Theirs(m)' /\ Aged(k)'
                               => InPass(m, k)'
                          /\ ~Running(m)' /\ child'[m][k] # Current /\ ~Theirs(m)'
                               => Between(m, k)'
      BY <1>3, <1>6, Zenon DEF LiveInv
    <2>1. clock'[k].told = clock[k].told
      BY Zenon
    <2>2. QED
      BY <1>3, <1>7, <1>8, <2>1, Zenon
  <1>10. QED
    BY <1>5, <1>9, Zenon

LEMMA TheirsKept ==
  ASSUME TypeInv, pass \in Passes, NEW object \in Objects \cup {None}, Write(object),
         Mine = None \/ Mine.mine
  PROVE  \A m \in MDs : Theirs(m) => Theirs(m)'
  <1> SUFFICES ASSUME NEW m \in MDs, Theirs(m) PROVE Theirs(m)'
    BY Zenon
  <1>1. PICK k \in Kinds : child[m][k] # None /\ ~child[m][k].mine
    BY Zenon DEF Theirs
  <1>2. <<m, k>> # <<pass.md, pass.kind>>
    BY <1>1, Zenon DEF Mine
  <1>3. child'[m][k] = child[m][k]
    BY <1>2, WriteEffect, Zenon
  <1>4. QED
    BY <1>1, <1>3, Zenon DEF Theirs

LEMMA KindsOfPass ==
  ASSUME pass \in Passes
  PROVE  /\ pass.md \in MDs /\ pass.kind \in Kinds /\ pass.spec.on \subseteq Kinds
         /\ pass.out.absent \subseteq Kinds
  <1>1. pass.spec \in Specs /\ pass.out \in Verdicts /\ pass.md \in MDs /\ pass.kind \in Kinds
    BY Zenon DEF Passes
  <1>2. QED
    BY <1>1, Zenon DEF Specs, Verdicts

(* An error ends the pass, which will be back after the backoff.           *)
LEMMA FailedKept ==
  ASSUME NInv, pass \in Passes, Step, pass.at # "resync", Failed, Works, UNCHANGED child,
         cache' = cache \/ cache' = Invalidate(pass.kind),
         (\E k \in Kinds : Aged(k)) /\ ~Theirs(pass.md) =>
           cache' = Invalidate(pass.kind) /\ Applying /\ pass.kind \notin crd
  PROVE  WaitInv' /\ FreshInv' /\ LiveInv'
  <1>1. /\ TypeInv /\ WaitInv /\ pass # None /\ UNCHANGED <<crd, clock>>
        /\ Continues /\ pass'.at = "resync" /\ pass'.failed
        /\ pass'.kind = IF Enabled("monitor") THEN "monitor" ELSE "rule"
    BY Zenon DEF NInv, MInv, Step, Works, Failed
  <1>2. Refreshed /\ pass.kind \in Kinds /\ pass.kind \notin pass.out.absent
        /\ pass.out.absent \subseteq Kinds /\ pass.spec.on \subseteq Kinds
    BY <1>1, StoreRefreshes, KindsOfPass, Zenon DEF WaitInv
  <1>3. WaitInv'
    <2>1. \A k \in pass.out.absent : cache'[k] = cache[k]
      BY <1>2, Zenon DEF Refreshed
    <2>2. QED
      BY <1>1, <2>1, CallWait, Zenon
  <1>4. Effect
    BY <1>1, <1>2, Zenon DEF Effect, Continues
  <1>5. ASSUME \E k \in Kinds : Aged(k) PROVE FreshEffect
    <2>1. \A m \in MDs : Theirs(m) => Theirs(m)'
      BY Zenon DEF Theirs
    <2>2. ASSUME ~Theirs(pass.md), NEW j \in pass.spec.on, Stale(j)'
          PROVE  Passed(j) \/ (j = "monitor" /\ "rule" \notin crd)
      <3>1. cache' = Invalidate(pass.kind) /\ pass.kind \notin crd
        BY <1>5, <2>2, Zenon
      <3>2. j # pass.kind
        BY <1>1, <1>2, <2>2, <3>1, Zenon DEF Stale, lookup, Invalidate, TypeInv
      <3>3. QED
        BY <1>2, <3>1, <3>2, Zenon DEF Passed, Kinds
    <2>3. QED
      BY <1>1, <1>5, <2>1, <2>2, Zenon DEF FreshEffect, Failed, Applying
  <1>6. QED
    BY <1>1, <1>3, <1>4, <1>5, EffectKept, Zenon

(* A kind that is dealt with has its object, or is not enabled.            *)
LEMMA OnwardKept ==
  ASSUME NInv, pass \in Passes, Step, pass.at # "resync", Onward, Works, UNCHANGED cache,
         \A m \in MDs, k \in Kinds :
           <<m, k>> # <<pass.md, pass.kind>> => child'[m][k] = child[m][k],
         child' \in [MDs -> [Kinds -> Objects \cup {None}]],
         pass.kind \in pass.spec.on =>
           child'[pass.md][pass.kind] = Current /\ pass.kind \in crd,
         (\E k \in Kinds : Aged(k)) => \A m \in MDs : Theirs(m) => Theirs(m)'
  PROVE  WaitInv' /\ FreshInv' /\ LiveInv'
  <1>1. /\ TypeInv /\ WaitInv /\ pass # None /\ UNCHANGED <<crd, clock>>
        /\ Continues /\ ~pass.failed
        /\ pass.kind \notin pass.out.absent /\ "monitor" \notin pass.out.absent
    BY Zenon DEF NInv, MInv, Step, Works, Onward, WaitInv
  <1>2. /\ Refreshed /\ pass.kind \in Kinds /\ pass.md \in MDs
        /\ pass.out.absent \subseteq Kinds /\ pass.spec.on \subseteq Kinds
    BY <1>1, StoreRefreshes, KindsOfPass, Zenon
  <1>3. /\ ~pass'.failed
        /\ \/ pass.kind = "rule" /\ pass'.at = "start" /\ pass'.kind = "monitor"
           \/ /\ pass.kind = "monitor" /\ pass'.at = "resync"
              /\ pass'.kind = IF Enabled("monitor") THEN "monitor" ELSE "rule"
    BY <1>1, <1>2, Zenon DEF Onward, Kinds
  <1>4. WaitInv'
    BY <1>1, <1>3, CallWait, Zenon
  <1>5. \A k \in Kinds : k # pass.kind => (Passed(k)' => Passed(k))
    BY <1>3, Zenon DEF Passed, Kinds
  <1>6. \A m \in MDs : m # pass.md => child'[m] = child[m]
    <2> SUFFICES ASSUME NEW m \in MDs, m # pass.md PROVE child'[m] = child[m]
      BY Zenon
    <2>1. child[m] \in [Kinds -> Objects \cup {None}] /\ child'[m] \in [Kinds -> Objects \cup {None}]
      BY <1>1, Zenon DEF TypeInv
    <2>2. \A k \in Kinds : child'[m][k] = child[m][k]
      BY Zenon
    <2>3. QED
      BY <2>1, <2>2
  <1>7. Effect
    <2>1. ASSUME NEW k \in pass.spec.on, child'[pass.md][k] # Current
          PROVE  child[pass.md][k] # Current /\ (Passed(k)' => Passed(k))
      BY <1>2, <1>5, <2>1, Zenon
    <2>2. QED
      BY <1>1, <1>2, <1>6, <2>1, Zenon DEF Effect, Continues
  <1>8. ASSUME \E k \in Kinds : Aged(k) PROVE FreshEffect
    <2>1. ASSUME NEW j \in pass.spec.on, Passed(j)', Stale(j)' PROVE Passed(j)
      BY <1>1, <1>2, <1>5, <2>1, Zenon DEF Stale
    <2>2. pass'.at \in {"start", "resync"} /\ ~pass'.touched /\ ~pass'.replaced
      BY <1>3, Zenon DEF Onward
    <2>3. QED
      BY <1>3, <1>8, <2>1, <2>2, Zenon DEF FreshEffect, Applying
  <1>9. QED
    BY <1>1, <1>4, <1>7, <1>8, EffectKept, Zenon

(* A step further with the same kind.                                      *)
LEMMA MovedKept ==
  ASSUME NInv, pass \in Passes, Step, pass.at # "resync", Works, Refreshed, Continues,
         pass'.kind = pass.kind, pass'.failed = pass.failed,
         pass'.at \in {"apply", "create", "write", "delete"},
         pass'.at = "delete" => /\ pass.kind \notin pass.spec.on
                                /\ child'[pass.md][pass.kind].mine,
         pass'.at = "create" => child'[pass.md][pass.kind] = None,
         pass'.at \in {"apply", "create", "write"} =>
           \/ Applying \/ pass.kind \in crd
           \/ pass.kind \in pass.spec.on /\ Stale(pass.kind),
         ~pass.touched /\ ~pass.replaced => ~pass'.touched /\ ~pass'.replaced,
         child' = child \/ (Write(Current) /\ Mine = None)
  PROVE  WaitInv' /\ FreshInv' /\ LiveInv'
  <1>1. /\ TypeInv /\ WaitInv /\ pass # None /\ UNCHANGED <<crd, clock>> /\ ~pass.failed
        /\ pass.kind \notin pass.out.absent /\ "monitor" \notin pass.out.absent
    BY Zenon DEF NInv, MInv, Step, Works, WaitInv
  <1>2. /\ pass.kind \in Kinds /\ pass.md \in MDs
        /\ pass.out.absent \subseteq Kinds /\ pass.spec.on \subseteq Kinds
    BY KindsOfPass, Zenon
  <1>3. WaitInv'
    <2>1. \A k \in pass.out.absent : cache'[k] = cache[k]
      BY <1>1, <1>2, Zenon DEF Refreshed
    <2>2. QED
      BY <1>1, <2>1, CallWait, Zenon
  <1>4. \A k \in Kinds : Passed(k)' <=> Passed(k)
    BY Zenon DEF Passed
  <1>5. Current \in Objects \cup {None}
    BY Zenon DEF Current, Objects
  <1>6. \A m \in MDs : m # pass.md => child'[m] = child[m]
    BY <1>1, <1>2, Zenon DEF Write, TypeInv
  <1>7. \A k \in Kinds : child'[pass.md][k] # Current => child[pass.md][k] # Current
    BY <1>1, <1>2, <1>5, WriteEffect, Zenon
  <1>8. Effect
    BY <1>1, <1>2, <1>4, <1>6, <1>7, Zenon DEF Effect, Continues
  <1>9. \A m \in MDs : Theirs(m) => Theirs(m)'
    <2>1. CASE child' = child
      BY <2>1, Zenon DEF Theirs
    <2>2. CASE Write(Current) /\ Mine = None
      BY <1>1, <1>5, <2>2, TheirsKept, Zenon
    <2>3. QED
      BY <2>1, <2>2, Zenon
  <1>10. ASSUME \E k \in Kinds : Aged(k) PROVE FreshEffect
    <2>1. ~pass'.touched /\ ~pass'.replaced
      BY <1>1, <1>10, Zenon DEF NInv, FreshInv
    <2>2. \A j \in pass.spec.on : Passed(j)' => Passed(j)
      BY <1>2, <1>4, Zenon
    <2>3. Applying' => pass'.at \in {"apply", "create", "write"}
      BY Zenon DEF Applying
    <2>4. QED
      BY <1>1, <1>9, <2>1, <2>2, <2>3, Zenon DEF FreshEffect
  <1>11. QED
    BY <1>1, <1>3, <1>8, <1>10, EffectKept, Zenon

(* A call that fails, or finds the kind gone.                              *)
LEMMA UnableKept ==
  ASSUME NInv, pass \in Passes, Step, pass.at # "resync",
         Unable \/ (Applying /\ invalidateMissingObservabilityKind)
  PROVE  WaitInv' /\ FreshInv' /\ LiveInv'
  <1>1. CASE Unable
    <2>1. Failed /\ Fails /\ UNCHANGED <<cache, child>> /\ TypeInv /\ WaitInv
      BY <1>1, UnableEffect, Zenon DEF NInv, MInv
    <2>2. WaitInv'
      BY <2>1, CallWait, Zenon DEF Failed
    <2>3. QED
      BY <2>1, <2>2, FailsUnclean, UncleanKept, Zenon
  <1>2. CASE Applying /\ invalidateMissingObservabilityKind
    BY <1>2, MissingEffect, FailedKept, Zenon
  <1>3. QED
    BY <1>1, <1>2, Zenon

LEMMA ProbeKept == NInv /\ Probe => WaitInv' /\ FreshInv' /\ LiveInv'
  <1> SUFFICES ASSUME NInv, Probe PROVE WaitInv' /\ FreshInv' /\ LiveInv'
    BY Zenon
  <1>1. /\ TypeInv /\ WaitInv /\ pass # None /\ pass \in Passes /\ Step /\ UNCHANGED <<crd, child>>
        /\ pass.at = "start" /\ pass.kind \in pass.spec.on
    BY Zenon DEF NInv, MInv, TypeInv, Step, Probe, Enabled
  <1>2. PICK answer \in BOOLEAN \cup {None} :
          /\ Has(pass.kind, answer)
          /\ \/ answer = TRUE /\ pass' = [pass EXCEPT !.at = "apply"]
             \/ answer = FALSE /\ Absent(pass.kind)
             \/ answer = None /\ Error("Unknown")
    BY Zenon DEF Probe
  <1>3. /\ Refreshed
        /\ answer = TRUE => /\ Works /\ ~KnownAbsent(pass.kind)
                            /\ pass.kind \in crd \/ Stale(pass.kind)
        /\ answer = FALSE => Works /\ \A k \in Kinds : k = pass.kind => KnownAbsent(k)'
        /\ answer = None => Fails
    BY <1>1, <1>2, HasRefreshes, Zenon
  <1>4. /\ pass.kind \in Kinds /\ pass.md \in MDs /\ pass.out.absent \subseteq Kinds
        /\ pass.spec.on \subseteq Kinds /\ pass.kind \notin pass.out.absent /\ ~pass.failed
        /\ "monitor" \notin pass.out.absent
    BY <1>1, KindsOfPass, Zenon DEF WaitInv
  <1>5. \A k \in pass.out.absent : cache'[k] = cache[k]
    BY <1>3, <1>4, Zenon DEF Refreshed
  <1>6. CASE answer = TRUE /\ pass' = [pass EXCEPT !.at = "apply"]
    <2>1. /\ Continues /\ pass'.at = "apply" /\ pass'.kind = pass.kind
          /\ pass'.failed = pass.failed /\ pass'.touched = pass.touched
          /\ pass'.replaced = pass.replaced
      BY <1>1, <1>6, Zenon DEF Continues, Passes
    <2>2. /\ pass.at # "resync" /\ Works /\ child' = child
          /\ pass.kind \in crd \/ (pass.kind \in pass.spec.on /\ Stale(pass.kind))
      BY <1>1, <1>3, <1>6, Zenon
    <2>3. /\ pass'.at \in {"apply", "create", "write", "delete"}
          /\ pass'.at # "create" /\ pass'.at # "delete"
      BY <2>1, Zenon
    <2>4. QED
      BY <1>1, <1>3, <2>1, <2>2, <2>3, MovedKept, Zenon
  <1>7. CASE answer = None /\ Error("Unknown")
    <2>1. "Unknown" \in Statuses
      BY Zenon DEF Statuses
    <2>2. Failed
      BY <1>1, <1>7, <2>1, ErrorEffect, Zenon
    <2>3. WaitInv'
      BY <1>1, <1>5, <2>2, CallWait, Zenon DEF Failed
    <2>4. QED
      BY <1>1, <1>3, <1>7, <2>3, FailsUnclean, UncleanKept, Zenon
  <1>8. CASE answer = FALSE /\ Absent(pass.kind)
    <2>1. /\ pass' \in Passes /\ pass'.md = pass.md /\ pass'.spec = pass.spec
          /\ pass'.out.absent = pass.out.absent \cup {pass.kind} /\ pass'.failed = pass.failed
          /\ pass'.kind = "monitor" /\ pass'.touched = pass.touched
          /\ pass'.replaced = pass.replaced
          /\ pass'.at = IF pass.kind = "rule" THEN "start" ELSE "resync"
      <3>1. pass.out \in Verdicts
        BY <1>1, Zenon DEF Passes
      <3>2. CASE pass.kind = "rule"
        <4> DEFINE o == [pass.out EXCEPT !.absent = {"rule"}]
        <4>1. pass' = [pass EXCEPT !.kind = "monitor", !.out = o]
          BY <1>1, <1>8, <3>1, <3>2, Zenon DEF Absent, Passes, Verdicts
        <4>2. o \in Verdicts /\ o.absent = {"rule"}
          BY <3>1, Zenon DEF Verdicts, Kinds
        <4>3. pass.out.absent = {}
          BY <1>4, <3>2, Zenon DEF Kinds
        <4> HIDE DEF o
        <4>4. QED
          BY <1>1, <3>1, <3>2, <4>1, <4>2, <4>3, Zenon DEF Passes, Kinds
      <3>3. CASE pass.kind # "rule"
        <4> DEFINE o == [pass.out EXCEPT !.status = "False",
                                         !.reason = "PrometheusOperatorCRDsAbsent",
                                         !.absent = pass.out.absent \cup {"monitor"}]
        <4>1. pass' = [pass EXCEPT !.at = "resync", !.out = o]
          BY <1>1, <1>8, <3>1, <3>3, Zenon DEF Absent, Passes, Verdicts
        <4>2. o \in Verdicts /\ o.absent = pass.out.absent \cup {"monitor"}
          BY <3>1, Zenon DEF Verdicts, Kinds, Statuses, Reasons
        <4>3. pass.kind = "monitor"
          BY <1>4, <3>3, Zenon DEF Kinds
        <4> HIDE DEF o
        <4>4. QED
          BY <1>1, <3>1, <4>1, <4>2, <4>3, Zenon DEF Passes
      <3>4. QED
        BY <3>2, <3>3, Zenon
    <2>2. pass' # None /\ UNCHANGED <<spec, due, verdict, clock>> /\ Works
      BY <1>1, <1>3, <1>8, <2>1, NoneAssumption, Zenon DEF Step, Works
    <2>3. WaitInv'
      <3>1. \A k \in pass'.out.absent : KnownAbsent(k)'
        <4>1. \A k \in pass.out.absent : KnownAbsent(k)
          BY <1>1, Zenon DEF WaitInv
        <4>2. \A k \in pass.out.absent : KnownAbsent(k)'
          BY <1>5, <4>1, Zenon DEF KnownAbsent, lookup
        <4>3. QED
          BY <1>3, <1>4, <1>8, <2>1, <4>2, Zenon
      <3>2. \A m \in MDs, k \in Kinds : Waits(m, k)' /\ ~Running(m)'
              => due'[m] # None /\ due'[m] <= AbsentTTL
        <4> SUFFICES ASSUME NEW m \in MDs, NEW k \in Kinds, Waits(m, k)', ~Running(m)'
                     PROVE  due'[m] # None /\ due'[m] <= AbsentTTL
          BY Zenon
        <4>1. m # pass.md
          BY <2>1, <2>2, Zenon DEF Running
        <4>2. Waits(m, k) /\ ~Running(m)
          BY <2>1, <2>2, <4>1, Zenon DEF Waits, Running
        <4>3. QED
          BY <1>1, <2>2, <4>2, Zenon DEF WaitInv
      <3>3. /\ pass'.out.absent \subseteq pass'.spec.on
            /\ due'[pass'.md] = 0 \/ (due'[pass'.md] = None /\ pass'.spec = spec'[pass'.md])
        BY <1>1, <2>1, <2>2, Zenon DEF WaitInv
      <3>4. /\ pass'.at # "resync" => /\ pass'.kind \notin pass'.out.absent
                                      /\ "monitor" \notin pass'.out.absent /\ ~pass'.failed
            /\ pass'.at = "resync" => "monitor" \in pass'.spec.on
            /\ pass'.at # "delete" /\ pass'.kind = "monitor"
        BY <1>1, <1>4, <2>1, Zenon DEF Kinds
      <3>5. QED
        BY <3>1, <3>2, <3>3, <3>4, Zenon DEF WaitInv
    <2>4. \A k \in Kinds : Passed(k)' => Passed(k) \/ k = pass.kind
      BY <1>4, <2>1, Zenon DEF Passed, Kinds
    <2>5. Effect
      BY <1>1, <1>3, <1>4, <2>1, <2>4, Zenon DEF Effect
    <2>6. ASSUME \E k \in Kinds : Aged(k) PROVE FreshEffect
      <3>1. ~pass'.touched /\ ~pass'.replaced
        BY <1>1, <2>1, <2>6, Zenon DEF NInv, FreshInv
      <3>2. \A m \in MDs : Theirs(m) => Theirs(m)'
        BY <1>1, Zenon DEF Theirs
      <3>3. ASSUME NEW j \in pass.spec.on, Passed(j)', Stale(j)' PROVE Passed(j)
        <4>1. j # pass.kind
          BY <1>3, <1>4, <1>8, <3>3, Zenon DEF Stale, KnownAbsent
        <4>2. QED
          BY <1>4, <2>4, <3>3, <4>1, Zenon
      <3>4. ~Applying' /\ pass'.at # "create" /\ pass'.at # "delete"
        BY <2>1, Zenon DEF Applying
      <3>5. QED
        BY <1>4, <2>1, <3>1, <3>2, <3>3, <3>4, Zenon DEF FreshEffect
    <2>7. QED
      BY <1>1, <2>2, <2>3, <2>5, <2>6, EffectKept, Zenon
  <1>9. QED
    BY <1>2, <1>6, <1>7, <1>8, Zenon

LEMMA ApplyKept ==
  NInv /\ (ReadForApply \/ Create \/ Apply) => WaitInv' /\ FreshInv' /\ LiveInv'
  <1> DEFINE Kept == WaitInv' /\ FreshInv' /\ LiveInv'
             reason == IF pass.spec.shim THEN "MetricsRegistered" ELSE "ShimDisabled"
  <1>1. Current \in Objects \cup {None} /\ "False" \in Statuses
    BY Zenon DEF Current, Objects, Statuses
  <1>2. ASSUME NInv, Step, pass.at # "resync", Works, UNCHANGED <<cache, child>>, Error("False"),
               (\E k \in Kinds : Aged(k)) => Theirs(pass.md)
        PROVE  Kept
    <2>1. pass \in Passes
      BY <1>2, Zenon DEF NInv, MInv, TypeInv, Step
    <2>2. Failed
      BY <1>1, <1>2, <2>1, ErrorEffect, Zenon
    <2>3. QED
      BY <1>2, <2>1, <2>2, FailedKept, Zenon
  <1>3. ASSUME NInv, ReadForApply PROVE Kept
    <2>1. pass \in Passes /\ Step /\ pass.at = "apply" /\ Applying /\ TypeInv /\ UNCHANGED crd
      BY <1>3, Zenon DEF NInv, MInv, TypeInv, Step, ReadForApply, Applying
    <2>2. CASE Unable \/ invalidateMissingObservabilityKind
      BY <1>3, <2>1, <2>2, UnableKept, Zenon
    <2>3. CASE /\ Works /\ UNCHANGED <<cache, child>>
               /\ Mine # None /\ ~Mine.mine /\ Error("False")
      <3>1. Theirs(pass.md)
        BY <2>1, <2>3, KindsOfPass, Zenon DEF Theirs, Mine
      <3>2. QED
        BY <1>2, <1>3, <2>1, <2>3, <3>1, Zenon
    <2>4. CASE /\ Works /\ UNCHANGED <<cache, child>>
               /\ pass' = [pass EXCEPT !.at = IF Mine = None THEN "create" ELSE "write",
                                       !.touched = FALSE, !.replaced = FALSE]
      <3>1. /\ Continues /\ pass'.kind = pass.kind /\ pass'.failed = pass.failed
            /\ ~pass'.touched /\ ~pass'.replaced
            /\ pass'.at = IF Mine = None THEN "create" ELSE "write"
        BY <2>1, <2>4, Zenon DEF Continues, Passes
      <3>2. pass'.at = "create" => child'[pass.md][pass.kind] = None
        BY <2>4, <3>1 DEF Mine
      <3>3. Refreshed
        BY <2>1, <2>4, StoreRefreshes, Zenon
      <3>4. pass'.at \in {"apply", "create", "write", "delete"} /\ pass'.at # "delete"
        BY <3>1, Zenon
      <3>5. QED
        BY <1>3, <2>1, <2>4, <3>1, <3>2, <3>3, <3>4, MovedKept, Zenon
    <2>5. QED
      BY <1>3, <2>2, <2>3, <2>4, Zenon DEF ReadForApply
  <1>4. ASSUME NInv, Create PROVE Kept
    <2>1. pass \in Passes /\ Step /\ pass.at = "create" /\ Applying /\ TypeInv /\ UNCHANGED crd
          /\ pass # None
      BY <1>4, Zenon DEF NInv, MInv, TypeInv, Step, Create, Applying
    <2>2. CASE Unable \/ invalidateMissingObservabilityKind
      BY <1>4, <2>1, <2>2, UnableKept, Zenon
    <2>3. CASE Works /\ UNCHANGED <<cache, child>> /\ Mine # None /\ Error("False")
      <3>1. ~(\E k \in Kinds : Aged(k))
        BY <1>4, <2>1, <2>3, Zenon DEF NInv, FreshInv
      <3>2. QED
        BY <1>2, <1>4, <2>1, <2>3, <3>1, Zenon
    <2>4. CASE /\ Works /\ UNCHANGED cache /\ Mine = None /\ Write(Current)
               /\ pass' = [pass EXCEPT !.at = "write", !.touched = FALSE, !.replaced = FALSE]
      <3>1. /\ Continues /\ pass'.kind = pass.kind /\ pass'.failed = pass.failed
            /\ ~pass'.touched /\ ~pass'.replaced /\ pass'.at = "write"
        BY <2>1, <2>4, Zenon DEF Continues, Passes
      <3>2. Refreshed
        BY <2>1, <2>4, StoreRefreshes, Zenon
      <3>3. /\ pass'.at \in {"apply", "create", "write", "delete"}
            /\ pass'.at # "delete" /\ pass'.at # "create"
        BY <3>1, Zenon
      <3>4. QED
        BY <1>4, <2>1, <2>4, <3>1, <3>2, <3>3, MovedKept, Zenon
    <2>5. QED
      BY <1>4, <2>2, <2>3, <2>4, Zenon DEF Create
  <1>5. ASSUME NInv, Apply PROVE Kept
    <2>1. pass \in Passes /\ Step /\ pass.at = "write" /\ Applying /\ TypeInv /\ UNCHANGED crd
          /\ pass # None
      BY <1>5, Zenon DEF NInv, MInv, TypeInv, Step, Apply, Applying
    <2>2. CASE Unable \/ invalidateMissingObservabilityKind
      BY <1>5, <2>1, <2>2, UnableKept, Zenon
    <2>3. CASE Works /\ UNCHANGED <<cache, child>> /\ conflicts /\ Error("False")
      <3>1. ~(\E k \in Kinds : Aged(k))
        BY <1>5, <2>1, <2>3, Zenon DEF NInv, FreshInv, conflicts
      <3>2. QED
        BY <1>2, <1>5, <2>1, <2>3, <3>1, Zenon
    <2>4. CASE /\ pass.kind \in crd /\ Works /\ UNCHANGED cache /\ ~conflicts
               /\ Write(Current) /\ Settled(reason)
      <3>1. Onward
        BY <2>1, <2>4, ShimReason, SettledEffect, Zenon
      <3>2. Mine.mine
        BY <1>5, <2>1, <2>4, Zenon DEF NInv, MInv, WriteInv, conflicts
      <3>3. \A m \in MDs : Theirs(m) => Theirs(m)'
        BY <1>1, <2>1, <2>4, <3>2, TheirsKept, Zenon
      <3>4. /\ child' \in [MDs -> [Kinds -> Objects \cup {None}]]
            /\ child'[pass.md][pass.kind] = Current
            /\ \A m \in MDs, k \in Kinds :
                 <<m, k>> # <<pass.md, pass.kind>> => child'[m][k] = child[m][k]
        BY <1>1, <2>1, <2>4, WriteEffect, Zenon
      <3>5. QED
        BY <1>5, <2>1, <2>4, <3>1, <3>3, <3>4, OnwardKept, Zenon
    <2>5. QED
      BY <1>5, <2>2, <2>3, <2>4, Zenon DEF Apply
  <1>6. QED
    BY <1>3, <1>4, <1>5, Zenon

LEMMA DeleteKept ==
  NInv /\ (ReadForDelete \/ Delete) => WaitInv' /\ FreshInv' /\ LiveInv'
  <1> DEFINE Kept == WaitInv' /\ FreshInv' /\ LiveInv'
             status == IF pass.kind = "rule" THEN "False" ELSE "Unknown"
  <1>1. status \in Statuses /\ "ServiceMonitorDisabled" \in Reasons
    BY Zenon DEF Statuses, Reasons
  <1>2. ASSUME NInv, Step, pass.at # "resync", Works, UNCHANGED <<cache, child>>, Error(status),
               (\E k \in Kinds : Aged(k)) => Theirs(pass.md)
        PROVE  Kept
    <2>1. pass \in Passes
      BY <1>2, Zenon DEF NInv, MInv, TypeInv, Step
    <2>2. Failed
      BY <1>1, <1>2, <2>1, ErrorEffect, Zenon
    <2>3. QED
      BY <1>2, <2>1, <2>2, FailedKept, Zenon
  <1>3. ASSUME NInv, ReadForDelete PROVE Kept
    <2>1. /\ pass \in Passes /\ Step /\ pass.at = "start" /\ TypeInv /\ UNCHANGED crd
          /\ pass.kind \notin pass.spec.on
      BY <1>3, Zenon DEF NInv, MInv, TypeInv, Step, ReadForDelete, Enabled
    <2>2. CASE Unable
      BY <1>3, <2>1, <2>2, UnableKept, Zenon
    <2>3. CASE Works /\ UNCHANGED <<cache, child>> /\ Settled("ServiceMonitorDisabled")
      <3>1. Onward
        BY <1>1, <2>1, <2>3, SettledEffect, Zenon
      <3>2. (\A m \in MDs : Theirs(m) => Theirs(m)') /\ child' \in [MDs -> [Kinds -> Objects \cup {None}]]
        BY <2>1, <2>3, Zenon DEF Theirs, TypeInv
      <3>3. QED
        BY <1>3, <2>1, <2>3, <3>1, <3>2, OnwardKept, Zenon
    <2>4. CASE /\ Works /\ UNCHANGED <<cache, child>>
               /\ Mine # None /\ ~Mine.mine /\ Error(status)
      <3>1. Theirs(pass.md)
        BY <2>1, <2>4, KindsOfPass, Zenon DEF Theirs, Mine
      <3>2. QED
        BY <1>2, <1>3, <2>1, <2>4, <3>1, Zenon
    <2>5. CASE /\ Works /\ UNCHANGED <<cache, child>> /\ Mine.mine
               /\ pass' = [pass EXCEPT !.at = "delete", !.touched = FALSE, !.replaced = FALSE]
      <3>1. /\ Continues /\ pass'.kind = pass.kind /\ pass'.failed = pass.failed
            /\ ~pass'.touched /\ ~pass'.replaced /\ pass'.at = "delete"
        BY <2>1, <2>5, Zenon DEF Continues, Passes
      <3>2. Refreshed /\ child'[pass.md][pass.kind].mine
        BY <2>1, <2>5, StoreRefreshes, Zenon DEF Mine
      <3>3. /\ pass'.at \in {"apply", "create", "write", "delete"}
            /\ pass'.at \notin {"apply", "create", "write"}
        BY <3>1, Zenon
      <3>4. QED
        BY <1>3, <2>1, <2>5, <3>1, <3>2, <3>3, MovedKept, Zenon
    <2>6. QED
      BY <1>3, <2>2, <2>3, <2>4, <2>5, Zenon DEF ReadForDelete
  <1>4. ASSUME NInv, Delete PROVE Kept
    <2>1. /\ pass \in Passes /\ Step /\ pass.at = "delete" /\ TypeInv /\ UNCHANGED crd
          /\ pass # None
      BY <1>4, Zenon DEF NInv, MInv, TypeInv, Step, Delete
    <2>2. pass.kind \notin pass.spec.on
      BY <1>4, <2>1, Zenon DEF NInv, WaitInv
    <2>3. CASE Unable
      BY <1>4, <2>1, <2>3, UnableKept, Zenon
    <2>4. CASE Works /\ UNCHANGED <<cache, child>> /\ pass.replaced /\ Error(status)
      <3>1. ~(\E k \in Kinds : Aged(k))
        BY <1>4, <2>1, <2>4, Zenon DEF NInv, FreshInv
      <3>2. QED
        BY <1>2, <1>4, <2>1, <2>4, <3>1, Zenon
    <2>5. CASE Works /\ UNCHANGED cache /\ Write(None) /\ Settled("ServiceMonitorDisabled")
      <3>1. Onward
        BY <1>1, <2>1, <2>5, SettledEffect, Zenon
      <3>2. ASSUME \E k \in Kinds : Aged(k) PROVE \A m \in MDs : Theirs(m) => Theirs(m)'
        <4>1. Mine = None \/ Mine.mine
          BY <1>4, <2>1, <3>2, Zenon DEF NInv, FreshInv
        <4>2. QED
          BY <2>1, <2>5, <4>1, TheirsKept, Zenon
      <3>3. /\ child' \in [MDs -> [Kinds -> Objects \cup {None}]]
            /\ \A m \in MDs, k \in Kinds :
                 <<m, k>> # <<pass.md, pass.kind>> => child'[m][k] = child[m][k]
        BY <2>1, <2>5, WriteEffect, Zenon
      <3>4. QED
        BY <1>4, <2>1, <2>2, <2>5, <3>1, <3>2, <3>3, OnwardKept, Zenon
    <2>6. QED
      BY <1>4, <2>3, <2>4, <2>5, Zenon DEF Delete
  <1>5. QED
    BY <1>3, <1>4, Zenon

(* The end of a pass: whoever has found a kind absent, or has failed, will *)
(* be back within a lifetime of a negative answer.                         *)
LEMMA EndKept ==
  ASSUME Retry <= AbsentTTL, NInv, pass \in Passes, pass # None, pass.at = "resync", Refreshed,
         UNCHANGED <<crd, spec, child>>, Works \/ Fails,
         NEW after \in Nat \cup {None}, End(after),
         after = AbsentTTL \/ pass.out.absent = {}
  PROVE  WaitInv' /\ FreshInv' /\ LiveInv'
  <1>1. /\ TypeInv /\ WaitInv /\ pass.md \in MDs /\ AbsentTTL \in Nat /\ Retry \in Nat
        /\ 0 # None /\ AbsentTTL # None /\ Retry # None
    BY MonitoringAssumption, NoneAssumption DEF NInv, MInv, Passes
  <1>2. /\ verdict'[pass.md] = pass.out /\ pass' = None
        /\ \A m \in MDs : m # pass.md => verdict'[m] = verdict[m] /\ due'[m] = due[m]
    BY <1>1, EndEffect, Zenon DEF End, TypeInv
  <1>3. due'[pass.md] = IF due[pass.md] = 0 THEN 0 ELSE IF pass.failed THEN Retry ELSE after
    BY <1>1, Zenon DEF End, TypeInv
  <1>4. pass.out.absent # {} \/ pass.failed =>
          due'[pass.md] # None /\ due'[pass.md] \in Nat /\ due'[pass.md] <= AbsentTTL
    BY <1>1, <1>3
  <1>5. WaitInv'
    <2> SUFFICES ASSUME NEW m \in MDs, NEW k \in Kinds, Waits(m, k)'
                 PROVE  due'[m] # None /\ due'[m] <= AbsentTTL
      BY <1>2, Zenon DEF WaitInv
    <2>1. k \in spec[m].on /\ k \in verdict'[m].absent
      BY <1>2, Zenon DEF Waits
    <2>2. CASE m = pass.md
      BY <1>2, <1>4, <2>1, <2>2, Zenon
    <2>3. CASE m # pass.md
      BY <1>1, <1>2, <2>1, <2>3, Zenon DEF WaitInv, Waits, Running
    <2>4. QED
      BY <2>2, <2>3, Zenon
  <1>6. FreshInv'
    BY <1>2, Zenon DEF FreshInv
  <1>7. CASE Fails
    BY <1>1, <1>5, <1>7, FailsUnclean, UncleanKept, Zenon
  <1>8. CASE Works
    <2>1. clock' = clock /\ \A k \in Kinds : Stale(k)' => Stale(k)
      BY <1>8, Zenon DEF Works, Refreshed
    <2> SUFFICES ASSUME NEW k \in Kinds, Live(k)
                 PROVE  /\ k \in crd /\ (KnownAbsent(k)' => cache'[k].left + clock[k].age <= AbsentTTL)
                        /\ \A m \in clock[k].told :
                             /\ k \in spec[m].on
                             /\ child[m][k] # Current /\ ~Theirs(m) => Between(m, k)'
      <3>1. \A m \in MDs : ~Running(m)' /\ (Theirs(m)' <=> Theirs(m))
        BY <1>2, Zenon DEF Running, Theirs
      <3>2. \A k \in Kinds : clock[k].told \subseteq MDs /\ (Live(k)' <=> Live(k))
        BY <1>1, <2>1, Zenon DEF TypeInv, Clocks, Live
      <3>3. QED
        BY <1>5, <1>6, <2>1, <3>1, <3>2, Zenon DEF LiveInv
    <2>2. k \in crd /\ (KnownAbsent(k)' => cache'[k].left + clock[k].age <= AbsentTTL)
      BY Zenon DEF NInv, LiveInv, Refreshed, KnownAbsent, lookup
    <2>3. ASSUME NEW m \in clock[k].told
          PROVE  /\ k \in spec[m].on
                 /\ child[m][k] # Current /\ ~Theirs(m) => Between(m, k)'
      <3>1. m \in MDs /\ k \in spec[m].on
        BY <1>1, Zenon DEF NInv, LiveInv, TypeInv, Clocks
      <3>2. spec[m].on \subseteq Kinds
        BY <1>1, <3>1, Zenon DEF TypeInv, Specs
      <3> SUFFICES ASSUME child[m][k] # Current, ~Theirs(m) PROVE Between(m, k)'
        BY <3>1, Zenon
      <3>3. CASE m # pass.md
        <4>1. Between(m, k)
          BY <3>3, Zenon DEF NInv, LiveInv, Running
        <4>2. QED
          BY <1>2, <2>1, <3>1, <3>2, <3>3, <4>1, Zenon DEF Between
      <3>4. CASE m = pass.md
        <4>1. clock[k].age \in Nat
          BY <1>1, Zenon DEF TypeInv, Clocks, Live
        <4>2. k \in pass.out.absent \/ pass.failed
          BY <3>4, Zenon DEF NInv, LiveInv, Running, Passed
        <4>3. due'[m] # None /\ due'[m] \in Nat /\ due'[m] <= AbsentTTL
          BY <1>4, <3>4, <4>2, Zenon
        <4>4. Aged(k) => InPass(m, k)
          BY <3>4, Zenon DEF NInv, LiveInv, Running
        <4>5. clock[k].age <= AbsentTTL
          <5> SUFFICES ASSUME clock[k].age > AbsentTTL PROVE FALSE
            BY <1>1, <4>1
          <5>1. Aged(k)
            BY <1>1, <4>1 DEF Aged
          <5>2. k \in pass.out.absent
            BY <4>2, <4>4, <5>1, Zenon DEF InPass
          <5>3. KnownAbsent(k)
            BY <1>1, <5>2, Zenon DEF WaitInv
          <5>4. cache[k].left + clock[k].age <= AbsentTTL /\ cache[k].left \in Nat
            BY <1>1, <5>3, Zenon DEF NInv, LiveInv, KnownAbsent, lookup, TypeInv, Answers
          <5>5. QED
            BY <1>1, <4>1, <5>4
        <4>6. ASSUME due'[m] + clock[k].age > AbsentTTL, NEW j \in spec[m].on PROVE ~Stale(j)'
          <5>1. Aged(k)
            BY <1>1, <4>1, <4>3, <4>6 DEF Aged
          <5>2. ~Stale(j)
            BY <4>4, <4>6, <5>1, Zenon DEF InPass, Passed
          <5>3. QED
            BY <2>1, <3>2, <5>2, Zenon
        <4>7. due'[m] + clock[k].age <= 2 * AbsentTTL
          BY <1>1, <4>1, <4>3, <4>5
        <4>8. QED
          BY <2>1, <4>3, <4>6, <4>7, Zenon DEF Between
      <3>5. QED
        BY <3>3, <3>4, Zenon
    <2>4. QED
      BY <2>2, <2>3, Zenon
  <1>9. QED
    BY <1>7, <1>8, Zenon

LEMMA ResyncKept ==
  ASSUME Retry <= AbsentTTL, NInv, observabilityResync
  PROVE  WaitInv' /\ FreshInv' /\ LiveInv'
  <1>1. /\ TypeInv /\ WaitInv /\ pass # None /\ pass.at = "resync" /\ pass \in Passes
        /\ UNCHANGED <<crd, spec, child>>
    BY Zenon DEF NInv, MInv, TypeInv, observabilityResync
  <1>2. /\ pass.kind \in Kinds /\ pass.out.absent \subseteq Kinds
        /\ pass.out.absent \subseteq pass.spec.on
        /\ pass.kind = "rule" => "monitor" \notin pass.out.absent
        /\ pass.kind = "monitor" => "monitor" \in pass.spec.on
        /\ \A k \in pass.out.absent : KnownAbsent(k)
    BY <1>1, KindsOfPass, Zenon DEF WaitInv
  <1>3. AbsentTTL \in Nat /\ Resync \in Nat
    BY MonitoringAssumption, Zenon
  <1>4. CASE ~Enabled(pass.kind) /\ End(None) /\ Works /\ UNCHANGED cache
    <2>1. pass.out.absent = {}
      BY <1>2, <1>4, Zenon DEF Enabled, Kinds
    <2>2. Refreshed
      BY <1>1, <1>4, StoreRefreshes, Zenon
    <2>3. QED
      BY <1>1, <1>4, <2>1, <2>2, EndKept, Zenon
  <1>5. ASSUME NEW answer \in BOOLEAN \cup {None},
               /\ Enabled(pass.kind) /\ Has(pass.kind, answer)
               /\ IF answer # TRUE THEN End(AbsentTTL)
                  ELSE IF pass.kind = "monitor" /\ Enabled("rule")
                  THEN pass' = [pass EXCEPT !.kind = "rule"] /\ UNCHANGED <<due, verdict>>
                  ELSE End(Resync)
        PROVE  WaitInv' /\ FreshInv' /\ LiveInv'
    <2>1. /\ Refreshed /\ (Works \/ Fails)
          /\ answer = TRUE => Works /\ ~KnownAbsent(pass.kind)
      BY <1>1, <1>5, HasRefreshes, Zenon DEF Has
    <2>2. CASE answer # TRUE
      BY <1>1, <1>3, <1>5, <2>1, <2>2, EndKept, Zenon
    <2>3. CASE answer = TRUE /\ End(Resync) /\ ~(pass.kind = "monitor" /\ Enabled("rule"))
      <3>1. pass.out.absent = {}
        BY <1>2, <2>1, <2>3, Zenon DEF Enabled, Kinds
      <3>2. QED
        BY <1>1, <1>3, <2>1, <2>3, <3>1, EndKept, Zenon
    <2>4. CASE /\ answer = TRUE /\ pass.kind = "monitor"
               /\ pass' = [pass EXCEPT !.kind = "rule"] /\ UNCHANGED <<due, verdict>>
      <3>1. /\ Continues /\ pass'.at = "resync" /\ pass'.kind = "rule"
            /\ pass'.failed = pass.failed /\ pass'.touched = pass.touched
            /\ pass'.replaced = pass.replaced
        BY <1>1, <2>4, Zenon DEF Continues, Passes, Kinds
      <3>2. Step /\ UNCHANGED clock
        BY <1>1, <2>1, <2>4, Zenon DEF Step, Works
      <3>3. pass.kind \notin pass.out.absent
        BY <1>2, <2>1, <2>4, Zenon
      <3>4. \A k \in pass.out.absent : cache'[k] = cache[k]
        BY <1>2, <2>1, <3>3, Zenon DEF Refreshed
      <3>5. WaitInv'
        BY <1>1, <2>4, <3>1, <3>2, <3>3, <3>4, CallWait, Zenon
      <3>6. \A k \in Kinds : Passed(k)' /\ Passed(k)
        BY <1>1, <3>1, Zenon DEF Passed
      <3>7. Effect
        BY <1>1, <2>1, <3>1, <3>6, KindsOfPass, Zenon DEF Effect, Continues
      <3>8. ASSUME \E k \in Kinds : Aged(k) PROVE FreshEffect
        <4>1. ~pass'.touched /\ ~pass'.replaced
          BY <1>1, <3>1, <3>8, Zenon DEF NInv, FreshInv
        <4>2. \A m \in MDs : Theirs(m) => Theirs(m)'
          BY <1>1, Zenon DEF Theirs
        <4>3. ~Applying' /\ pass'.at # "create" /\ pass'.at # "delete"
          BY <3>1, Zenon DEF Applying
        <4>4. QED
          BY <1>1, <3>1, <3>6, <4>1, <4>2, <4>3, KindsOfPass, Zenon DEF FreshEffect
      <3>9. QED
        BY <1>1, <3>2, <3>5, <3>7, <3>8, EffectKept, Zenon
    <2>5. QED
      BY <1>5, <2>2, <2>3, <2>4, Zenon
  <1>6. QED
    BY <1>4, <1>5, Zenon DEF observabilityResync

LEMMA BeginKept ==
  ASSUME NEW n \in MDs, NInv, Begin(n) PROVE WaitInv' /\ FreshInv' /\ LiveInv'
  <1>1. /\ TypeInv /\ WaitInv /\ pass = None /\ due[n] = 0
        /\ UNCHANGED <<crd, cache, spec, child, verdict, clock>>
    BY Zenon DEF NInv, MInv, Begin
  <1>2. /\ pass' \in Passes /\ pass'.md = n /\ pass'.spec = spec[n] /\ pass'.kind = "rule"
        /\ pass'.at = "start" /\ ~pass'.touched /\ ~pass'.replaced /\ ~pass'.failed
        /\ pass'.out.absent = {}
    <2>1. NoVerdict \in Verdicts /\ NoVerdict.absent = {}
      BY Zenon DEF NoVerdict, Verdicts, Statuses, Reasons
    <2>2. QED
      BY <1>1, <2>1, Zenon DEF Begin, Passes, TypeInv, Kinds
  <1>3. pass' # None
    BY <1>2, NoneAssumption, Zenon
  <1>4. due'[n] = None /\ \A m \in MDs : m # n => due'[m] = due[m]
    BY <1>1, Zenon DEF Begin, TypeInv
  <1>5. \A m \in MDs : (Running(m)' <=> m = n) /\ ~Running(m)
    BY <1>1, <1>2, <1>3, Zenon DEF Running
  <1>6. WaitInv'
    <2>1. \A m \in MDs, k \in Kinds : Waits(m, k)' /\ ~Running(m)'
            => due'[m] # None /\ due'[m] <= AbsentTTL
      <3> SUFFICES ASSUME NEW m \in MDs, NEW k \in Kinds, Waits(m, k)', ~Running(m)'
                   PROVE  due'[m] # None /\ due'[m] <= AbsentTTL
        BY Zenon
      <3>1. Waits(m, k) /\ m # n
        BY <1>1, <1>2, <1>5, Zenon DEF Waits
      <3>2. QED
        BY <1>1, <1>4, <1>5, <3>1, Zenon DEF WaitInv
    <2>2. QED
      BY <1>1, <1>2, <1>4, <2>1, Zenon DEF WaitInv
  <1>7. FreshInv'
    BY <1>1, <1>2, <1>4, Zenon DEF FreshInv
  <1>8. LiveInv'
    <2> SUFFICES ASSUME NEW k \in Kinds, Live(k), NEW m \in clock[k].told
                 PROVE  /\ k \in spec[m].on
                        /\ Running(m)' => k \in pass'.spec.on
                        /\ Running(m)' => ~Passed(k)'
                        /\ Running(m)' /\ child[m][k] # Current /\ ~Theirs(m) /\ Aged(k)
                             => InPass(m, k)'
                        /\ ~Running(m)' /\ child[m][k] # Current /\ ~Theirs(m) => Between(m, k)'
      <3>1. \A k \in Kinds : Live(k) =>
              k \in crd /\ (KnownAbsent(k) => cache[k].left + clock[k].age <= AbsentTTL)
        BY Zenon DEF NInv, LiveInv
      <3>2. \A k \in Kinds : /\ (Live(k)' <=> Live(k)) /\ (Aged(k)' <=> Aged(k))
                              /\ (KnownAbsent(k)' <=> KnownAbsent(k))
        BY <1>1, Zenon DEF Live, Aged, KnownAbsent, lookup
      <3>3. \A m : Theirs(m)' <=> Theirs(m)
        BY <1>1, Zenon DEF Theirs
      <3>4. QED
        BY <1>1, <3>1, <3>2, <3>3, Zenon DEF LiveInv
    <2>1. m \in MDs /\ k \in spec[m].on
      BY <1>1, Zenon DEF NInv, LiveInv, TypeInv, Clocks
    <2>2. child[m][k] # Current /\ ~Theirs(m) => Between(m, k)
      BY <1>5, <2>1, Zenon DEF NInv, LiveInv
    <2>3. \A j \in Kinds : (Stale(j)' <=> Stale(j)) /\ ~Passed(j)'
      BY <1>1, <1>2, Zenon DEF Stale, lookup, Passed
    <2>4. spec[m].on \subseteq Kinds /\ clock[k].age \in Nat
      BY <1>1, <2>1, Zenon DEF TypeInv, Specs, Clocks, Live
    <2>5. CASE m = n
      <3>1. Between(m, k) => InPass(m, k)'
        BY <1>1, <1>2, <2>3, <2>4, <2>5 DEF Between, InPass, Applying
      <3>2. QED
        BY <1>2, <1>5, <2>1, <2>2, <2>3, <2>5, <3>1, Zenon
    <2>6. CASE m # n
      <3>1. Between(m, k) => Between(m, k)'
        BY <1>1, <1>4, <2>1, <2>3, <2>4, <2>6, Zenon DEF Between
      <3>2. QED
        BY <1>5, <2>1, <2>2, <2>6, <3>1, Zenon
    <2>7. QED
      BY <2>5, <2>6, Zenon
  <1>9. QED
    BY <1>6, <1>7, <1>8, Zenon

LEMMA InstallKept ==
  ASSUME NEW i \in Kinds, NInv, Install(i) PROVE WaitInv' /\ FreshInv' /\ LiveInv'
  <1> DEFINE told == {m \in MDs : Waits(m, i)}
  <1>1. /\ TypeInv /\ AbsenceInv /\ WaitInv /\ i \notin crd /\ crd' = crd \cup {i}
        /\ UNCHANGED <<cache, spec, child, pass, due, verdict>>
    BY Zenon DEF NInv, MInv, Install, Event
  <1>2. /\ clock'[i].age = 0 /\ clock'[i].told = told
        /\ \A k \in Kinds : k # i => clock'[k] = clock[k]
    BY <1>1, Zenon DEF Install, TypeInv, Clocks
  <1>3. WaitInv'
    BY <1>1, Zenon DEF WaitInv, KnownAbsent, lookup, Waits, Running
  <1>4. \A k \in Kinds : Aged(k)' => k # i /\ Aged(k)
    BY <1>2 DEF Aged, Live
  <1>5. FreshInv'
    BY <1>1, <1>4, Zenon DEF NInv, FreshInv, Mine
  <1>6. \A m \in MDs : (Running(m)' <=> Running(m)) /\ (Theirs(m)' <=> Theirs(m))
    BY <1>1, Zenon DEF Running, Theirs
  <1>7. \A k \in Kinds : /\ (Stale(k)' => Stale(k))
                          /\ (KnownAbsent(k)' <=> KnownAbsent(k))
                          /\ (Passed(k)' <=> Passed(k))
    BY <1>1, Zenon DEF Stale, KnownAbsent, lookup, Passed
  <1>8. ASSUME NEW k \in Kinds, Live(k)', k # i, NEW m \in clock[k].told
        PROVE  /\ m \in MDs
               /\ InPass(m, k) => InPass(m, k)'
               /\ Between(m, k) => Between(m, k)'
    <2>1. m \in MDs
      BY <1>1, Zenon DEF TypeInv, Clocks
    <2>2. spec[m].on \subseteq Kinds
      BY <1>1, <2>1, Zenon DEF TypeInv, Specs
    <2>3. QED
      BY <1>1, <1>2, <1>7, <1>8, <2>1, <2>2, Zenon DEF InPass, Between, Applying
  <1>9. ASSUME NEW m \in told
        PROVE  /\ i \in spec[m].on /\ m \in MDs
               /\ Running(m) => i \in pass.out.absent /\ i \in pass.spec.on
               /\ ~Running(m) => Between(m, i)'
    <2>1. m \in MDs /\ Waits(m, i) /\ i \in spec[m].on
      BY <1>9, Zenon DEF Waits
    <2>2. Running(m) => i \in pass.out.absent /\ i \in pass.spec.on
      BY <1>1, <2>1, Zenon DEF Running, Waits, WaitInv
    <2>3. ~Running(m) => due[m] # None /\ due[m] <= AbsentTTL /\ due[m] \in Nat
      BY <1>1, <2>1, Zenon DEF WaitInv, TypeInv
    <2>4. QED
      BY <1>1, <1>2, <2>1, <2>2, <2>3, MonitoringAssumption DEF Between
  <1>10. KnownAbsent(i) => cache[i].left + 0 <= AbsentTTL
    BY <1>1, MonitoringAssumption DEF AbsenceInv, KnownAbsent, lookup, TypeInv, Answers, Clocks
  <1>11. LiveInv'
    <2> SUFFICES ASSUME NEW k \in Kinds, Live(k)'
                 PROVE  /\ k \in crd'
                        /\ KnownAbsent(k) => cache[k].left + clock'[k].age <= AbsentTTL
                        /\ \A m \in clock'[k].told :
                             /\ k \in spec[m].on /\ m \in MDs
                             /\ Running(m) => k \in pass.spec.on
                             /\ Running(m) /\ child[m][k] # Current
                                  => ~Passed(k) \/ k \in pass.out.absent \/ pass.failed
                             /\ Running(m) /\ child[m][k] # Current /\ ~Theirs(m) /\ Aged(k)'
                                  => InPass(m, k)'
                             /\ ~Running(m) /\ child[m][k] # Current /\ ~Theirs(m)
                                  => Between(m, k)'
      BY <1>1, <1>6, <1>7, Zenon DEF LiveInv
    <2>1. CASE k = i
      BY <1>1, <1>2, <1>4, <1>9, <1>10, <2>1, Zenon
    <2>2. CASE k # i
      <3>1. clock'[k] = clock[k] /\ Live(k)
        BY <1>2, <2>2, Zenon DEF Live
      <3>2. k \in crd' /\ (KnownAbsent(k) => cache[k].left + clock'[k].age <= AbsentTTL)
        BY <1>1, <3>1, Zenon DEF NInv, LiveInv
      <3>3. QED
        BY <1>4, <1>8, <2>2, <3>1, <3>2, Zenon DEF NInv, LiveInv
    <2>3. QED
      BY <2>1, <2>2, Zenon
  <1>12. QED
    BY <1>3, <1>5, <1>11, Zenon

(* What others do to the objects or the specs starts the history anew.     *)
LEMMA EventKept ==
  ASSUME NInv,
         \/ \E k \in Kinds : Uninstall(k)
         \/ \E m \in MDs, k \in Kinds : Tamper(m, k)
         \/ \E m \in MDs : Edit(m)
  PROVE  WaitInv' /\ FreshInv' /\ LiveInv'
  <1>1. TypeInv /\ WaitInv /\ UNCHANGED <<cache, verdict>>
    BY Zenon DEF NInv, MInv, Uninstall, Tamper, Edit, Event
  <1>2. FreshInv' /\ LiveInv'
    <2>1. \A k \in Kinds : clock'[k].age = None
      <3>1. CASE \E k \in Kinds : Uninstall(k)
        <4>1. PICK k \in Kinds : clock' = [Unsettled EXCEPT ![k].gone = 0]
          BY <3>1, Zenon DEF Uninstall
        <4>2. QED
          BY <1>1, <4>1, UnsettledTyped, UnsettledUnclean, Zenon DEF Clocks
      <3>2. CASE clock' = Unsettled
        BY <1>1, <3>2, UnsettledUnclean, Zenon
      <3>3. QED
        BY <3>1, <3>2, Zenon DEF Tamper, Edit
    <2>2. QED
      BY <2>1, UncleanKept, Zenon
  <1>3. ASSUME UNCHANGED <<spec, due>>,
               \/ pass' = pass
               \/ /\ pass # None /\ pass' # None /\ pass'.md = pass.md /\ pass'.spec = pass.spec
                  /\ pass'.kind = pass.kind /\ pass'.at = pass.at /\ pass'.out = pass.out
                  /\ pass'.failed = pass.failed
        PROVE  WaitInv'
    <2>1. pass' # None <=> pass # None
      BY <1>3, Zenon
    <2>2. \A m \in MDs, k \in Kinds : (Waits(m, k)' <=> Waits(m, k)) /\ (Running(m)' <=> Running(m))
      BY <1>1, <1>3, Zenon DEF Waits, Running
    <2>3. \A k \in Kinds : KnownAbsent(k)' <=> KnownAbsent(k)
      BY <1>1, Zenon DEF KnownAbsent, lookup
    <2>4. pass # None => pass.out.absent \subseteq Kinds
      BY <1>1, KindsOfPass, Zenon DEF TypeInv
    <2>5. QED
      BY <1>1, <1>3, <2>1, <2>2, <2>3, <2>4, Zenon DEF WaitInv
  <1>4. CASE \E k \in Kinds : Uninstall(k)
    <2>1. PICK k \in Kinds : /\ UNCHANGED <<spec, due>>
                             /\ pass' = IF pass # None /\ pass.kind = k
                                        THEN [pass EXCEPT !.touched = TRUE, !.replaced = TRUE]
                                        ELSE pass
      BY <1>4, Zenon DEF Uninstall
    <2>2. CASE pass' = pass
      BY <1>2, <1>3, <2>1, <2>2, Zenon
    <2>3. CASE pass # None /\ pass' = [pass EXCEPT !.touched = TRUE, !.replaced = TRUE]
      <3>1. pass \in Passes
        BY <1>1, <2>3, Zenon DEF TypeInv
      <3>2. /\ pass' \in Passes /\ pass'.md = pass.md /\ pass'.spec = pass.spec
            /\ pass'.kind = pass.kind /\ pass'.at = pass.at /\ pass'.out = pass.out
            /\ pass'.failed = pass.failed
        BY <2>3, <3>1, Zenon DEF Passes
      <3>3. QED
        BY <1>2, <1>3, <2>1, <2>3, <3>2, NoneAssumption, Zenon
    <2>4. QED
      BY <2>1, <2>2, <2>3, Zenon
  <1>5. CASE \E m \in MDs, k \in Kinds : Tamper(m, k)
    <2>1. PICK m \in MDs, k \in Kinds, fresh \in BOOLEAN :
            /\ UNCHANGED <<spec, due>>
            /\ pass' = IF pass # None /\ pass.md = m /\ pass.kind = k
                       THEN [pass EXCEPT !.touched = TRUE, !.replaced = @ \/ fresh] ELSE pass
      BY <1>5, Zenon DEF Tamper
    <2>2. CASE pass' = pass
      BY <1>2, <1>3, <2>1, <2>2, Zenon
    <2>3. CASE pass # None /\ pass' = [pass EXCEPT !.touched = TRUE, !.replaced = @ \/ fresh]
      <3> DEFINE r == pass.replaced \/ fresh
      <3>1. pass \in Passes /\ r \in BOOLEAN /\ pass' = [pass EXCEPT !.touched = TRUE, !.replaced = r]
        BY <1>1, <2>3, Zenon DEF TypeInv
      <3> HIDE DEF r
      <3>2. /\ pass' \in Passes /\ pass'.md = pass.md /\ pass'.spec = pass.spec
            /\ pass'.kind = pass.kind /\ pass'.at = pass.at /\ pass'.out = pass.out
            /\ pass'.failed = pass.failed
        BY <3>1, Zenon DEF Passes
      <3>3. QED
        BY <1>2, <1>3, <2>1, <2>3, <3>2, NoneAssumption, Zenon
    <2>4. QED
      BY <2>1, <2>2, <2>3, Zenon
  <1>6. CASE \E m \in MDs : Edit(m)
    <2>1. PICK n \in MDs : Edit(n)
      BY <1>6, Zenon
    <2>2. /\ UNCHANGED pass /\ due'[n] = 0 /\ AbsentTTL \in Nat /\ 0 # None
          /\ \A m \in MDs : m # n => spec'[m] = spec[m] /\ due'[m] = due[m]
      BY <1>1, <2>1, MonitoringAssumption, NoneAssumption DEF Edit, TypeInv
    <2>3. \A m \in MDs, k \in Kinds : Waits(m, k)' /\ ~Running(m)'
            => due'[m] # None /\ due'[m] <= AbsentTTL
      <3> SUFFICES ASSUME NEW m \in MDs, NEW k \in Kinds, Waits(m, k)', ~Running(m)', m # n
                   PROVE  due'[m] # None /\ due'[m] <= AbsentTTL
        BY <2>2
      <3>1. Waits(m, k) /\ ~Running(m)
        BY <1>1, <2>2, Zenon DEF Waits, Running
      <3>2. QED
        BY <1>1, <2>2, <3>1, Zenon DEF WaitInv
    <2>4. pass # None => pass.md \in MDs
      BY <1>1, KindsOfPass, Zenon DEF TypeInv
    <2>5. pass # None => \A k \in pass.out.absent : KnownAbsent(k)'
      BY <1>1, Zenon DEF WaitInv, KnownAbsent, lookup
    <2>6. WaitInv'
      BY <1>1, <2>2, <2>3, <2>4, <2>5, Zenon DEF WaitInv
    <2>7. QED
      BY <1>2, <2>6, Zenon
  <1>7. QED
    BY <1>4, <1>5, <1>6, Zenon

LEMMA TickKept == NInv /\ Tick => WaitInv' /\ FreshInv' /\ LiveInv'
  <1> SUFFICES ASSUME NInv, Tick PROVE WaitInv' /\ FreshInv' /\ LiveInv'
    BY Zenon
  <1>1. /\ TypeInv /\ WaitInv /\ pass = None /\ pass' = None
        /\ UNCHANGED <<crd, spec, child, verdict>> /\ AbsentTTL \in Nat
    BY MonitoringAssumption, Zenon DEF NInv, MInv, Tick
  <1>2. ASSUME NEW m \in MDs, due[m] # None
        PROVE  due[m] \in Nat /\ due'[m] = due[m] - 1 /\ due'[m] \in Nat /\ due'[m] # None
    <2>1. due[m] \in Nat /\ due[m] # 0 /\ due'[m] = due[m] - 1
      BY <1>1, <1>2, Zenon DEF TypeInv, Tick
    <2>2. due'[m] \in Nat
      BY <2>1
    <2>3. QED
      BY <2>1, <2>2, NoneAssumption, Zenon
  <1>3. WaitInv'
    <2> SUFFICES ASSUME NEW m \in MDs, NEW k \in Kinds, Waits(m, k)'
                 PROVE  due'[m] # None /\ due'[m] <= AbsentTTL
      BY <1>1, Zenon DEF WaitInv
    <2>1. Waits(m, k) /\ ~Running(m)
      BY <1>1, Zenon DEF Waits, Running
    <2>2. due[m] # None /\ due[m] <= AbsentTTL
      BY <1>1, <2>1, Zenon DEF WaitInv
    <2>3. QED
      BY <1>1, <1>2, <2>2
  <1>4. FreshInv'
    BY <1>1, Zenon DEF FreshInv
  <1>5. ASSUME NEW k \in Kinds
        PROVE  /\ lookup(k)' => /\ lookup(k) /\ cache'[k].present = cache[k].present
                                /\ cache[k].left \in Nat /\ cache'[k].left = cache[k].left - 1
               /\ Stale(k)' => Stale(k)
    <2>1. cache'[k] = IF lookup(k) THEN [cache[k] EXCEPT !.left = @ - 1] ELSE cache[k]
      BY Zenon DEF Tick
    <2>2. CASE lookup(k)
      <3>1. cache[k] \in Answers /\ cache'[k] = [cache[k] EXCEPT !.left = @ - 1]
        BY <1>1, <2>1, <2>2, Zenon DEF TypeInv, lookup
      <3>2. /\ cache'[k].present = cache[k].present
            /\ cache[k].left \in Nat /\ cache'[k].left = cache[k].left - 1
        BY <3>1, Zenon DEF Answers
      <3>3. QED
        BY <1>1, <2>2, <3>2, Zenon DEF Stale
    <2>3. CASE ~lookup(k)
      BY <2>1, <2>3, Zenon DEF Stale, lookup
    <2>4. QED
      BY <2>2, <2>3, Zenon
  <1>6. ASSUME NEW k \in Kinds
        PROVE  /\ clock'[k].told = clock[k].told /\ (Live(k)' => Live(k))
               /\ Live(k) => /\ clock[k].age \in Nat /\ clock'[k].age \in Nat
                             /\ clock'[k].age <= clock[k].age + 1
    <2> DEFINE a == IF clock[k].age = None THEN None
                    ELSE AtMost(clock[k].age, 2 * AbsentTTL + 1)
               g == IF k \in crd THEN AtMost(clock[k].gone, AbsentTTL + 1) ELSE 0
    <2>1. clock'[k] = [clock[k] EXCEPT !.age = a, !.gone = g] /\ clock[k] \in Clocks
      BY <1>1, Zenon DEF Tick, TypeInv, Clocks
    <2>2. clock'[k].age = a /\ clock'[k].told = clock[k].told
      BY <2>1, Zenon DEF Clocks
    <2>3. Live(k) => clock[k].age \in Nat
      BY <2>1, Zenon DEF Live, Clocks
    <2>4. Live(k) => a \in Nat /\ a <= clock[k].age + 1
      <3> SUFFICES ASSUME Live(k) PROVE a \in Nat /\ a <= clock[k].age + 1
        BY Zenon
      <3>1. a = AtMost(clock[k].age, 2 * AbsentTTL + 1)
        BY Zenon DEF Live
      <3> HIDE DEF a
      <3>2. CASE clock[k].age < 2 * AbsentTTL + 1
        BY <2>3, <3>1, <3>2 DEF AtMost
      <3>3. CASE ~(clock[k].age < 2 * AbsentTTL + 1)
        BY <1>1, <2>3, <3>1, <3>3 DEF AtMost
      <3>4. QED
        BY <3>2, <3>3, Zenon
    <2>5. Live(k)' => Live(k)
      BY <2>2, Zenon DEF Live
    <2>6. QED
      BY <2>2, <2>3, <2>4, <2>5, Zenon
  <1>7. LiveInv'
    <2> SUFFICES ASSUME NEW k \in Kinds, Live(k)
                 PROVE  /\ k \in crd
                        /\ KnownAbsent(k)' => cache'[k].left + clock'[k].age <= AbsentTTL
                        /\ \A m \in clock[k].told :
                             /\ k \in spec[m].on
                             /\ child[m][k] # Current /\ ~Theirs(m) => Between(m, k)'
      <3>1. \A m : ~Running(m)' /\ (Theirs(m)' <=> Theirs(m))
        BY <1>1, Zenon DEF Running, Theirs
      <3>2. QED
        BY <1>1, <1>6, <3>1, Zenon DEF LiveInv
    <2>1. k \in crd /\ (KnownAbsent(k) => cache[k].left + clock[k].age <= AbsentTTL)
      BY Zenon DEF NInv, LiveInv
    <2>2. KnownAbsent(k)' => cache'[k].left + clock'[k].age <= AbsentTTL
      BY <1>1, <1>5, <1>6, <2>1 DEF KnownAbsent
    <2>3. ASSUME NEW m \in clock[k].told
          PROVE  /\ k \in spec[m].on
                 /\ child[m][k] # Current /\ ~Theirs(m) => Between(m, k)'
      <3>1. m \in MDs /\ k \in spec[m].on
        BY <1>1, Zenon DEF NInv, LiveInv, TypeInv, Clocks
      <3>2. spec[m].on \subseteq Kinds
        BY <1>1, <3>1, Zenon DEF TypeInv, Specs
      <3> SUFFICES ASSUME child[m][k] # Current, ~Theirs(m) PROVE Between(m, k)'
        BY <3>1, Zenon
      <3>3. Between(m, k)
        BY <1>1, Zenon DEF NInv, LiveInv, Running
      <3>4. /\ due[m] \in Nat /\ due'[m] = due[m] - 1 /\ due'[m] \in Nat /\ due'[m] # None
            /\ due[m] + clock[k].age <= 2 * AbsentTTL
        BY <1>2, <3>1, <3>3, Zenon DEF Between
      <3>5. due'[m] + clock'[k].age <= due[m] + clock[k].age
        BY <1>6, <3>4
      <3>6. /\ due'[m] + clock'[k].age <= 2 * AbsentTTL
            /\ due'[m] + clock'[k].age > AbsentTTL => due[m] + clock[k].age > AbsentTTL
        BY <1>1, <1>6, <3>4, <3>5
      <3>7. QED
        BY <1>1, <1>5, <3>2, <3>3, <3>4, <3>6, Zenon DEF Between
    <2>4. QED
      BY <2>1, <2>2, <2>3, Zenon
  <1>8. QED
    BY <1>3, <1>4, <1>7, Zenon

LEMMA InitNInv == Init => NInv
  <1> SUFFICES ASSUME Init PROVE NInv
    BY Zenon
  <1>1. MInv
    BY InitMInv, Zenon
  <1>2. \A k \in Kinds : clock[k].age = None
    BY Zenon DEF Init
  <1>3. FreshInv /\ LiveInv
    BY <1>2, Zenon DEF FreshInv, LiveInv, Live, Aged
  <1>4. pass = None /\ \A m \in MDs : verdict[m].absent = {}
    BY Zenon DEF Init, NoVerdict
  <1>5. WaitInv
    BY <1>4, Zenon DEF WaitInv, Waits
  <1>6. QED
    BY <1>1, <1>3, <1>5, Zenon DEF NInv

(* An installation is noticed within two lifetimes of a negative answer by *)
(* every ModelDeployment that waits for it, whatever it and the others     *)
(* have left in the cache they share (observabilityResync, Prober), as     *)
(* long as the queue retries a failed pass within one such lifetime.       *)
THEOREM InstallationNoticed ==
  ASSUME Retry <= AbsentTTL
  PROVE  Spec => []NoticedWithinAMinute
  <1>1. MInv /\ [Next]_vars => MInv'
    BY MInvStep, Zenon
  <1>2. NInv /\ [Next]_vars => NInv'
    <2> SUFFICES ASSUME NInv, [Next]_vars PROVE NInv'
      BY Zenon
    <2>1. MInv'
      BY <1>1, Zenon DEF NInv
    <2>2. CASE Work
      <3>1. WaitInv' /\ FreshInv' /\ LiveInv'
        BY <2>2, BeginKept, ProbeKept, ApplyKept, DeleteKept, ResyncKept, Zenon DEF Work
      <3>2. QED
        BY <2>1, <3>1, Zenon DEF NInv
    <2>3. CASE Tick
      BY <2>1, <2>3, TickKept, Zenon DEF NInv
    <2>4. CASE \E k \in Kinds : Install(k)
      <3>1. WaitInv' /\ FreshInv' /\ LiveInv'
        BY <2>4, InstallKept, Zenon
      <3>2. QED
        BY <2>1, <3>1, Zenon DEF NInv
    <2>5. CASE \/ \E k \in Kinds : Uninstall(k)
               \/ \E m \in MDs, k \in Kinds : Tamper(m, k)
               \/ \E m \in MDs : Edit(m)
      <3>1. WaitInv' /\ FreshInv' /\ LiveInv'
        BY <2>5, EventKept, Zenon
      <3>2. QED
        BY <2>1, <3>1, Zenon DEF NInv
    <2>6. CASE UNCHANGED vars
      <3>1. WaitInv' /\ FreshInv'
        BY <2>6, Zenon DEF vars, NInv, WaitInv, FreshInv, KnownAbsent, lookup, Waits, Running, Mine, Aged, Live
      <3>2. LiveInv'
        BY <2>6 DEF vars, NInv, LiveInv, KnownAbsent, lookup, Running, Aged, Live, Theirs, Passed,
                    InPass, Between, Stale, Applying
      <3>3. QED
        BY <2>1, <3>1, <3>2, Zenon DEF NInv
    <2>7. QED
      BY <2>2, <2>3, <2>4, <2>5, <2>6, Zenon DEF Next
  <1>3. NInv => NoticedWithinAMinute
    <2> SUFFICES ASSUME NInv, NEW k \in Kinds, NEW m \in clock[k].told,
                        clock[k].age # None, clock[k].age > 2 * AbsentTTL, ~Theirs(m),
                        child[m][k] # Current
                 PROVE  FALSE
      BY Zenon DEF NoticedWithinAMinute
    <2>1. TypeInv /\ AbsentTTL \in Nat
      BY MonitoringAssumption, Zenon DEF NInv, MInv
    <2>2. m \in MDs /\ clock[k].age \in Nat
      BY <2>1, Zenon DEF TypeInv, Clocks
    <2>3. Live(k) /\ Aged(k) /\ clock[k].age > AbsentTTL
      BY <2>1, <2>2 DEF Live, Aged
    <2>4. CASE Running(m)
      <3>1. InPass(m, k)
        BY <2>3, <2>4, Zenon DEF NInv, LiveInv
      <3>2. clock[k].age <= 2 * AbsentTTL
        BY <2>3, <3>1, Zenon DEF InPass
      <3>3. QED
        BY <2>1, <2>2, <3>2
    <2>5. CASE ~Running(m)
      <3>1. Between(m, k)
        BY <2>3, <2>5, Zenon DEF NInv, LiveInv
      <3>2. due[m] \in Nat /\ due[m] + clock[k].age <= 2 * AbsentTTL
        BY <2>1, <2>2, <3>1, Zenon DEF Between, TypeInv
      <3>3. QED
        BY <2>1, <2>2, <3>2
    <2>6. QED
      BY <2>4, <2>5, Zenon
  <1>4. QED
    BY <1>2, <1>3, InitNInv, PTL DEF Spec
=============================================================================
