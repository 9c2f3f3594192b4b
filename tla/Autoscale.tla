----------------------------- MODULE Autoscale -------------------------------
(***************************************************************************)
(* The built-in autoscaler: the pure decision Recommend                    *)
(* (internal/autoscale/recommend.go) and the part of a reconcile pass that *)
(* samples, decides, writes spec.replicas and remembers the recommendation *)
(* in status (internal/controller/autoscale.go), among a load that moves,  *)
(* pods that come and go, people and other autoscalers that write the same *)
(* field, and a clock that may step back.                                  *)
(*                                                                         *)
(* An instant is an age in ticks: r.Time.Before(now - w) is age > w, and   *)
(* r.Time.After(now) is a negative age.  Ages stop at one more than the    *)
(* longest window.                                                         *)
(***************************************************************************)
EXTENDS Integers, Sequences, FiniteSetsExt

CONSTANTS NoSample,      \* no usable measurement
          Loads,         \* values the fleet-wide metric may take
          Limits,        \* [min, max] pairs spec.autoscaling may hold
          Totals,        \* values of spec.replicas a person or an HPA writes
          Target,        \* desired metric value per pod
          ToleranceMilli,
          UpWindow, DownWindow,
          MaxHistory,    \* maxHistory
          MaxPasses,     \* bound: passes in one tick
          MaxEdits       \* bound: moves of the world outside

VARIABLES replicas,   \* spec.replicas
          ready,      \* ready pods of both variants
          load,       \* what a measurement would return
          limits,     \* spec.autoscaling.minReplicas and maxReplicas
          enabled,    \* spec.autoscaling.mode = Builtin
          hpa,        \* an HPA targets this ModelDeployment
          history,    \* status.autoscaling.recommendations
          passes,     \* passes since the last tick (bound)
          edits,      \* outside moves so far (bound)
          recs,       \* history: every recommendation saved in the window
          busy        \* history: how long ago a pass measured a load that
                      \* needed the whole fleet

vars == <<replicas, ready, load, limits, enabled, hpa, history, passes, edits, recs, busy>>

MaxInt32 == 2147483647
Larger(a, b) == IF a > b THEN a ELSE b
Smaller(a, b) == IF a < b THEN a ELSE b
Window == Larger(UpWindow, DownWindow)

-----------------------------------------------------------------------------
(* The pure decision.                                                      *)

(* A mutant: the limits are taken as they stand.                           *)
clampRaw(n, lim) == Smaller(Larger(n, lim.min), lim.max)

(* An inverted range prefers the floor.                                    *)
clamp(n, lim) == Smaller(Larger(n, Larger(lim.min, 1)),
                         Larger(lim.max, Larger(lim.min, 1)))

(* ready * ((value/ready) / target) is value / target.                     *)
ceilToInt32(value) ==
  IF value <= 0 THEN 0 ELSE Smaller((value + Target - 1) \div Target, MaxInt32)

(* |value / (pods * target) - 1| <= tolerance, without the quotients.      *)
InBand(value, pods) ==
  LET gap == value - pods * Target
  IN  1000 * Larger(gap, -gap) <= ToleranceMilli * pods * Target

Within(h, window) == { h[i].replicas : i \in { j \in DOMAIN h : h[j].age <= window } }

minOver(h, window) == IF Within(h, window) = {} THEN 0 ELSE Min(Within(h, window))

maxOver(h, window) ==
  IF Within(h, window) = {} THEN MaxInt32 ELSE Larger(0, Max(Within(h, window)))

(* A mutant: only the scale-up window is remembered.                       *)
pruneUp(h) == SelectSeq(h, LAMBDA r : r.age \in 0..UpWindow)

Newest(h) == SubSeq(h, Larger(1, Len(h) - MaxHistory + 1), Len(h))

prune(h) == Newest(SelectSeq(h, LAMBDA r : r.age \in 0..Window))

(* A mutant: an up decision follows the window below the current count.    *)
stabilizeUnguarded(raw, current, h) ==
  IF raw > current THEN minOver(h, UpWindow)
  ELSE IF raw < current THEN Smaller(maxOver(h, DownWindow), current)
  ELSE current

stabilize(raw, current, h) ==
  IF raw > current
  THEN IF UpWindow <= 0 THEN raw ELSE Larger(minOver(h, UpWindow), current)
  ELSE IF raw < current
  THEN IF DownWindow <= 0 THEN raw ELSE Smaller(maxOver(h, DownWindow), current)
  ELSE current

(* An Output: what spec.replicas should be, the history to persist, and    *)
(* the raw recommendation that was appended to it (0 if none was).         *)
Hold(current, h) == [replicas |-> current, history |-> prune(h), raw |-> 0]

Remember(h, n) == prune(Append(h, [age |-> 0, replicas |-> n]))

InTolerance(current, h) ==
  [replicas |-> current, history |-> Remember(h, current), raw |-> current]

Stabilized(raw, current, h, lim) ==
  [replicas |-> clamp(stabilize(raw, current, h), lim), history |-> h, raw |-> raw]

ScaleTo(raw, current, h, lim) == Stabilized(raw, current, Remember(h, raw), lim)

(* A mutant: no tolerance band, and the ready pods are scaled, not the     *)
(* demand, so a fleet still starting up looks overloaded.                  *)
RecommendByReady(value, pods, current, h, lim) ==
  IF value = NoSample \/ pods < 1 THEN Hold(current, h)
  ELSE ScaleTo(clamp(IF value > pods * Target THEN current + 1 ELSE current - 1, lim),
               current, h, lim)

(* Recommend(in), with current already clamped.                            *)
Decide(value, pods, current, h, lim) ==
  IF value = NoSample \/ pods < 1 \/ Target <= 0 THEN Hold(current, h)
  ELSE IF InBand(value, pods) THEN InTolerance(current, h)
  ELSE ScaleTo(clamp(ceilToInt32(value), lim), current, h, lim)

Recommend(value, pods, total, h, lim) == Decide(value, pods, clamp(total, lim), h, lim)

-----------------------------------------------------------------------------
(* The world before the first pass.                                        *)

Init ==
  /\ replicas \in Totals
  /\ ready = 0
  /\ load \in Loads
  /\ limits \in Limits
  /\ enabled \in BOOLEAN
  /\ hpa = FALSE
  /\ history = << >>
  /\ passes = 0
  /\ edits = 0
  /\ recs = {}
  /\ busy = Window + 1

-----------------------------------------------------------------------------
(* reconcileAutoscaling, and the write of its verdict into status.         *)

Counted == passes < MaxPasses /\ passes' = passes + 1

(* status.autoscaling is nil after a pass that did not decide: the mode is *)
(* Off, an HPA owns the count, or the HPAs could not be listed.            *)
StandDown ==
  /\ Counted
  /\ history' = << >>
  /\ recs' = {}
  /\ UNCHANGED <<replicas, ready, load, limits, enabled, hpa, edits, busy>>

PassDisabled == ~enabled /\ StandDown

PassConflict == enabled /\ hpa /\ StandDown

PassListFails == enabled /\ StandDown

Recorded(out) ==
  IF out.raw = 0 THEN recs ELSE recs \cup {[age |-> 0, replicas |-> out.raw]}

(* The patch and the status write both succeed.                            *)
CarriedOut(out) ==
  /\ replicas' = out.replicas
  /\ history' = out.history
  /\ recs' = Recorded(out)

(* The patch of spec.replicas fails; status is written all the same.       *)
PatchFailed(out) ==
  /\ out.replicas # replicas
  /\ history' = out.history
  /\ recs' = Recorded(out)
  /\ UNCHANGED replicas

(* A later step of the pass fails, or status turns out stale: the count is *)
(* written and the recommendation is not.                                  *)
StatusLost(out) ==
  /\ replicas' = out.replicas
  /\ UNCHANGED <<history, recs>>

NeedsTheFleet(sample) ==
  sample # NoSample /\ ready > 0 /\ ceilToInt32(sample) >= replicas

Sampled(sample) ==
  /\ enabled /\ ~hpa
  /\ Counted
  /\ busy' = IF NeedsTheFleet(sample) THEN 0 ELSE busy
  /\ UNCHANGED <<ready, load, limits, enabled, hpa, edits>>

Output(sample) == Recommend(sample, ready, replicas, history, limits)

(* The measurement is withheld when the metric scope is not ready or the   *)
(* provider fails, returns no series, several, or no finite number.        *)
PassMeasured == Sampled(load) /\ CarriedOut(Output(load))

PassBlind == Sampled(NoSample) /\ CarriedOut(Output(NoSample))

PassPatchFails ==
  \E sample \in {load, NoSample} : Sampled(sample) /\ PatchFailed(Output(sample))

PassStatusLost ==
  \E sample \in {load, NoSample} : Sampled(sample) /\ StatusLost(Output(sample))

-----------------------------------------------------------------------------
(* Everyone else.                                                          *)

Outside == edits < MaxEdits /\ edits' = edits + 1

LoadMoves(v) ==
  /\ Outside /\ v # load
  /\ load' = v
  /\ UNCHANGED <<replicas, ready, limits, enabled, hpa, history, passes, recs, busy>>

(* kubectl scale, or an HPA that the last pass did not see yet.            *)
Scale(n) ==
  /\ Outside /\ n # replicas
  /\ replicas' = n
  /\ UNCHANGED <<ready, load, limits, enabled, hpa, history, passes, recs, busy>>

EditLimits(lim) ==
  /\ Outside /\ lim # limits
  /\ limits' = lim
  /\ UNCHANGED <<replicas, ready, load, enabled, hpa, history, passes, recs, busy>>

SwitchMode ==
  /\ Outside
  /\ enabled' = ~enabled
  /\ UNCHANGED <<replicas, ready, load, limits, hpa, history, passes, recs, busy>>

SwitchHPA ==
  /\ Outside
  /\ hpa' = ~hpa
  /\ UNCHANGED <<replicas, ready, load, limits, enabled, history, passes, recs, busy>>

PodLost ==
  /\ Outside /\ ready > 0
  /\ ready' = ready - 1
  /\ UNCHANGED <<replicas, load, limits, enabled, hpa, history, passes, recs, busy>>

(* The Deployment controllers bring the ready pods towards the count.      *)
PodsFollow ==
  /\ ready # replicas
  /\ ready' = IF ready < replicas THEN ready + 1 ELSE ready - 1
  /\ UNCHANGED <<replicas, load, limits, enabled, hpa, history, passes, edits, recs, busy>>

(* A replacement leader with a slower clock.                               *)
ClockStepsBack ==
  /\ Outside
  /\ history' = [i \in DOMAIN history |-> [history[i] EXCEPT !.age = Larger(@ - 1, -1)]]
  /\ recs' = {}
  /\ UNCHANGED <<replicas, ready, load, limits, enabled, hpa, passes, busy>>

Older(age) == Smaller(age + 1, Window + 1)

Tick ==
  /\ passes' = 0
  /\ history' = [i \in DOMAIN history |-> [history[i] EXCEPT !.age = Older(@)]]
  /\ recs' = { [r EXCEPT !.age = @ + 1] : r \in { x \in recs : x.age < Window } }
  /\ busy' = Older(busy)
  /\ UNCHANGED <<replicas, ready, load, limits, enabled, hpa, edits>>

Next ==
  \/ PassDisabled \/ PassConflict \/ PassListFails
  \/ PassMeasured \/ PassBlind \/ PassPatchFails \/ PassStatusLost
  \/ \E v \in Loads \cup {NoSample} : LoadMoves(v)
  \/ \E n \in Totals : Scale(n)
  \/ \E lim \in Limits : EditLimits(lim)
  \/ SwitchMode \/ SwitchHPA \/ PodLost \/ PodsFollow \/ ClockStepsBack \/ Tick

Spec == Init /\ [][Next]_vars

(* Passes that measure keep succeeding now and then (the poll timer and    *)
(* the retries of the work queue), pods follow the count, time passes.     *)
FairSpec == Spec /\ SF_vars(PassMeasured) /\ WF_vars(PodsFollow) /\ WF_vars(Tick)

-----------------------------------------------------------------------------
(* A step of the autoscaler that changes the count: nobody else's does     *)
(* without being an outside move.                                          *)
Resizes == edits' = edits /\ replicas' # replicas

(* applyReplicas, recommend.go clamp: whatever the measurement, its        *)
(* absence, or the limits having just changed, a count the autoscaler      *)
(* writes lies within the declared limits, and never reaches zero.         *)
WritesWithinLimits ==
  [][Resizes => replicas' >= Larger(limits.min, 1)
             /\ (limits.min <= limits.max => replicas' <= limits.max)]_vars

(* recommend.go stabilize ("Never let an UP decision turn into a           *)
(* scale-down as a side effect"): from a count within the limits, the      *)
(* fleet grows only under a measured load above what it is sized for, and  *)
(* shrinks only under one below.  In particular a blind pass never moves.  *)
MovesWithTheLoad ==
  [][Resizes /\ clamp(replicas, limits) = replicas =>
       /\ load # NoSample
       /\ replicas' > replicas => load > replicas * Target
       /\ replicas' < replicas => load < replicas * Target]_vars

(* recommend.go stabilize, prune: a shrinking fleet keeps what any         *)
(* recommendation saved in the last DownWindow asked for, and a growing    *)
(* one takes no more than each of the last UpWindow did; recommendations   *)
(* are those made since the history was last discarded.                    *)
WindowHonoured ==
  [][Resizes /\ clamp(replicas, limits) = replicas =>
       \A r \in recs :
         /\ replicas' < replicas /\ DownWindow > 0 /\ r.age <= DownWindow =>
              replicas' >= Smaller(replicas, clamp(r.replicas, limits))
         /\ replicas' > replicas /\ UpWindow > 0 /\ r.age <= UpWindow =>
              replicas' <= Larger(replicas, clamp(r.replicas, limits))]_vars

(* The fleet fits the load: it is inside the band, or it is the smallest   *)
(* count within the limits that carries the load.                          *)
Fits ==
  enabled /\ ~hpa /\ load # NoSample /\ replicas >= 1 =>
    InBand(load, replicas) \/ replicas = clamp(ceilToInt32(load), limits)

(* applyReplicas ("That convergence is what the tolerance band and the     *)
(* stabilization windows are for"): once the world outside is quiet the    *)
(* fleet comes to fit the load and is not resized again.                   *)
Converges == <>[]Fits /\ <>[][replicas' = replicas]_vars

(* recommend.go:320, "A single quiet moment cannot remove capacity; the    *)
(* load has to have been low for the whole window": a fleet that a pass    *)
(* found fully needed within the window is not made smaller.               *)
QuietForTheWholeWindow ==
  [][Resizes /\ clamp(replicas, limits) = replicas /\ replicas' < replicas =>
       busy >= DownWindow]_vars
=============================================================================
