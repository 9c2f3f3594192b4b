------------------------------- MODULE Exposure --------------------------------
(***************************************************************************)
(* The traffic share a canary's status shows: observeCanaryTraffic and     *)
(* sampleCanaryTraffic (internal/controller/canary_exposure.go).           *)
(*                                                                         *)
(* A pass shows the observation of an earlier pass again until it is too   *)
(* old, while the trial it is about may restart and its plan may be        *)
(* edited.  Instants are kept as ages, in ticks, up to a cap that is       *)
(* beyond every comparison; a pass is run as soon as it is due.            *)
(***************************************************************************)
EXTENDS Integers, FiniteSetsExt

CONSTANTS None,
          Plans,     \* the [delay, interval, window] a spec may resolve to
          MaxRate,   \* bound: the largest rate
          MinRate,   \* minRequestRate
          MaxEdits   \* bound: edits of the plan

VARIABLES
  plan,
  trial,    \* the canary's state: its identity, and since when it is available
  shown,    \* status.canary's observation
  series,   \* request-start series of the variants: None, or rate and freshness
  due,      \* the time to the next pass
  edits

vars == <<plan, trial, shown, series, due, edits>>

MaxWindow == Max({p.window : p \in Plans})
Cap == 2 * MaxWindow + Max({p.delay : p \in Plans}) + 1

Variants == {"primary", "canary"}
Readings == [rate : 0..MaxRate, stale : BOOLEAN] \cup {None}

Nothing == [reason |-> "AwaitingFreshWindow", weight |-> None, at |-> None,
            window |-> None, of |-> None]

Init ==
  /\ plan \in Plans
  /\ trial = [id |-> 0, since |-> None]
  /\ shown = Nothing
  /\ series = [v \in Variants |-> None]
  /\ due = 0 /\ edits = 0

-----------------------------------------------------------------------------

Plain(reason) == [reason |-> reason, weight |-> None, at |-> 0,
                  window |-> plan.window, of |-> trial'.id]

(* math.Round, to the nearest whole percent.                               *)
Round(a, b) == (200 * a + b) \div (2 * b)

(* sampleCanaryTraffic: the first thing that is wrong with the primary,    *)
(* then with the canary, then with their sum; a query may also fail.       *)
sampleCanaryTraffic ==
  LET p == series["primary"]
      c == series["canary"]
      bad(s) == IF s = None THEN "MissingSeries" ELSE IF s.stale THEN "StaleSamples" ELSE None
      total == p.rate + c.rate
  IN  { Plain("ProviderUnavailable"),
        IF bad(p) # None THEN Plain(bad(p))
        ELSE IF bad(c) # None THEN Plain(bad(c))
        ELSE IF total = 0 \/ total < MinRate THEN Plain("InsufficientTraffic")
        ELSE [Plain("Measured") EXCEPT !.weight = Round(c.rate, total)] }

retention == Min({plan.interval, plan.window})

(* A mutant: a measurement is kept when the warm-up is extended over it.   *)
reusableAnyhow ==
  /\ shown.of = trial'.id /\ shown.at # None /\ shown.window = plan.window
  /\ shown.at < retention

reusable ==
  /\ shown.of = trial'.id /\ shown.at # None /\ shown.window = plan.window
  /\ trial'.since - shown.at >= plan.delay + plan.window
  /\ shown.at < retention

(* observeCanaryTraffic, after the state machine has moved the trial.      *)
observeCanaryTraffic ==
  IF trial'.since = None \/ trial'.since < plan.delay + plan.window
  THEN shown' = Nothing /\ due' \in 1..MaxWindow
  ELSE IF reusable
  THEN shown' = shown /\ due' \in 1..(retention - shown.at)
  ELSE shown' \in sampleCanaryTraffic /\ due' \in 1..retention

(* A pass.  The state machine leaves the trial alone, finds it available,  *)
(* finds that it no longer is, or starts another.                          *)
Pass ==
  /\ due = 0
  /\ trial' \in { trial, [trial EXCEPT !.since = None],
                  [trial EXCEPT !.since = IF @ = None THEN 0 ELSE @],
                  [id |-> 1 - trial.id, since |-> None] }
  /\ observeCanaryTraffic
  /\ UNCHANGED <<plan, series, edits>>

Edit ==
  /\ edits < MaxEdits /\ edits' = edits + 1
  /\ plan' \in Plans \ {plan} /\ due' = 0
  /\ UNCHANGED <<trial, shown, series>>

Scrape(v) ==
  /\ due # 0
  /\ series' \in {[series EXCEPT ![v] = r] : r \in Readings}
  /\ UNCHANGED <<plan, trial, shown, due, edits>>

Older(age) == IF age = None THEN None ELSE IF age < Cap THEN age + 1 ELSE Cap

Tick ==
  /\ due # 0
  /\ due' = due - 1
  /\ trial' = [trial EXCEPT !.since = Older(@)]
  /\ shown' = [shown EXCEPT !.at = Older(@)]
  /\ UNCHANGED <<plan, series, edits>>

Next == Pass \/ Edit \/ Tick \/ \E v \in Variants : Scrape(v)

Spec == Init /\ [][Next]_vars

-----------------------------------------------------------------------------
(* Properties *)

(* A share that is shown was measured over a window in which this trial,   *)
(* and no earlier one, was available throughout and had warmed up,         *)
(* whatever became of the trial and of its plan since; and it is not older *)
(* than that window ("An unusually long analysis interval must not keep a  *)
(* measurement visible after its entire lookback has aged out"), since a   *)
(* pass is due by then.                                                    *)
ShownIsOfThisTrial ==
  due # 0 /\ shown.weight # None =>
    /\ shown.at <= shown.window
    /\ shown.of = trial.id /\ trial.since # None
    /\ trial.since = Cap \/ trial.since - shown.at >= plan.delay + plan.window
=============================================================================
