------------------------------- MODULE Analysis --------------------------------
(***************************************************************************)
(* One analysis round: Analyzer.Run (internal/analysis/analyzer.go), the   *)
(* queries it renders (builtin.go), the provider (prometheus.go) and the   *)
(* verdict on one answer (evaluate.go).                                    *)
(*                                                                         *)
(* The round asks the provider several questions, one after the other, and *)
(* traffic may stop between two of them.  A query is evaluated over the    *)
(* series of the two variants; an answer is empty, one number, NaN, or     *)
(* several series.                                                         *)
(***************************************************************************)
EXTENDS Integers, Sequences

CONSTANTS None,      \* no series, no bound
          NaN, Inf,  \* the values that are not numbers
          MaxRate,   \* bound: the largest rate
          MinRate,   \* minRequestRate, where the spec does not turn it off
          MinUsage,  \* minUsageSamples
          Floor      \* clampFloor is 1 / Floor

Num(n, d) == [n |-> n, d |-> d]
Whole(n) == IF n \in {None, NaN} THEN n ELSE Num(n, 1)
Less(a, b) == a.n * b.d < b.n * a.d

-----------------------------------------------------------------------------
(* The series of one variant in the window: the request and 5xx rates, a   *)
(* latency quantile, and the completions that reported their usage (which  *)
(* stand for the output rates too).  A series exists once it has been      *)
(* incremented, so there may be requests and no series of errors; a        *)
(* variant that has gone quiet keeps its series, and a quantile over them  *)
(* is NaN.                                                                 *)
Series ==
  { s \in [requests : 0..MaxRate \cup {None}, errors : 0..MaxRate \cup {None},
           latency : 1..2 \cup {NaN, None}, usage : 0..MaxRate \cup {None}] :
      /\ s.requests = None => {s.errors, s.latency, s.usage} = {None}
      /\ s.requests = 0 => s.errors \in {0, None} /\ s.latency \in {NaN, None}
                           /\ s.usage \in {0, None}
      /\ s.requests \in 1..MaxRate =>
           /\ s.errors \in 0..s.requests \cup {None}
           /\ s.latency \in 1..2
           /\ s.usage \in 0..s.requests \cup {None} }

Quiet(s) ==
  IF s.requests = None THEN s
  ELSE [requests |-> 0, latency |-> NaN,
        errors   |-> IF s.errors = None THEN None ELSE 0,
        usage    |-> IF s.usage = None THEN None ELSE 0]

-----------------------------------------------------------------------------
(* PromQL, as far as the queries use it.  None is the empty vector.        *)

Div(a, b) ==
  IF None \in {a, b} THEN None ELSE IF NaN \in {a, b} THEN NaN
  ELSE Num(a.n * b.d, a.d * b.n)

ClampMin(a) == IF a \in {None, NaN} THEN a ELSE IF a.n = 0 THEN Num(1, Floor) ELSE a

errorRateQuery(s) ==
  Div(Whole(IF s.errors # None THEN s.errors
            ELSE IF s.requests # None THEN 0 ELSE None),
      ClampMin(Whole(s.requests)))

(* builtinQuery on the series of one variant; a raw query is its author's. *)
builtinQuery(b, s) ==
  CASE b = "quantile"          -> Whole(s.latency)
    [] b = "error-rate"        -> errorRateQuery(s)
    [] b = "success-rate"      -> LET e == errorRateQuery(s)
                                  IN  IF e \in {None, NaN} THEN e ELSE Num(e.d - e.n, e.d)
    [] b = "output-chunk-rate" -> Whole(s.usage)
    [] b = "output-token-rate" -> Whole(s.usage)

RequestRateQuery(s) == Whole(s.requests)
UsageSamplesQuery(s) == Whole(s.usage)

(* A mutant: the ratio is upside down.                                     *)
RatioInverted(canary, primary) == Div(primary, ClampMin(canary))

RatioQuery(canary, primary) == Div(canary, ClampMin(primary))

(* What Provider.Query may return for a vector: a sample, or an error if   *)
(* the provider is unreachable, refuses, or answers in another shape.      *)
Answers(vector) ==
  { [err |-> TRUE, count |-> 0, value |-> None],
    [err |-> FALSE, count |-> IF vector = None THEN 0 ELSE 1, value |-> vector] }

(* A raw query may also return several series, or an infinity.             *)
RawAnswers ==
  UNION { Answers(v) : v \in {None, NaN, Inf, Num(1, 1), Num(2, 1)} }
    \cup { [err |-> FALSE, count |-> 2, value |-> None] }

Evaluate(m, sample) ==
  IF sample.err \/ sample.count > 1 THEN "Error"
  ELSE IF sample.count = 0 \/ sample.value \in {NaN, Inf} THEN "Inconclusive"
  ELSE IF m.min # None /\ Less(sample.value, m.min) THEN "Fail"
  ELSE IF m.max # None /\ Less(m.max, sample.value) THEN "Fail"
  ELSE "Pass"

-----------------------------------------------------------------------------
(* The round.                                                              *)

VARIABLES
  metrics,  \* spec.metrics
  floor,    \* req.MinRequestRate
  world,    \* the series of the two variants
  round,    \* what is asked next, of which metric, and the verdicts so far
  began     \* history: the series when the round began

vars == <<metrics, floor, world, round, began>>

(* What an AnalysisMetric may be: a built-in or a raw query, compared with *)
(* the primary or not, against one bound.                                  *)
Builtins == {"quantile", "error-rate", "success-rate", "output-chunk-rate", "output-token-rate"}

Metrics ==
  { m \in [query : Builtins \cup {"raw"}, compare : BOOLEAN,
           min : {None, Num(1, 1)}, max : {None, Num(1, 2), Num(3, 2)}] :
      (m.min = None) # (m.max = None) }

(* Two metrics in one round: the defaults of the API.                      *)
DefaultMetrics ==
  { [query |-> "quantile", compare |-> TRUE, min |-> None, max |-> Num(3, 2)],
    [query |-> "error-rate", compare |-> FALSE, min |-> None, max |-> Num(1, 20)] }

Init ==
  /\ metrics \in { <<m>> : m \in Metrics } \cup { <<a, b>> : a, b \in DefaultMetrics }
  /\ floor \in {0, MinRate}
  /\ world \in [{"canary", "primary"} -> Series]
  /\ (\A i \in DOMAIN metrics : ~metrics[i].compare) => world["primary"] = world["canary"]
  /\ began = world
  /\ round = [ask |-> "gate", checks |-> <<>>]

Metric == metrics[Len(round.checks) + 1]

(* What the next metric asks first.                                        *)
First(checks) ==
  IF Len(checks) = Len(metrics) THEN "done"
  ELSE IF metrics[Len(checks) + 1].query = "output-token-rate" THEN "usage"
  ELSE "measure"

Judge(verdict) ==
  LET checks == Append(round.checks, verdict)
  IN  round' = [ask |-> First(checks), checks |-> checks]

allChecks(verdict) ==
  round' = [ask |-> "done", checks |-> [i \in DOMAIN metrics |-> verdict]]

Asked == UNCHANGED <<metrics, floor, world, began>>

(* A mutant: the gate lets an empty answer through.                        *)
gateOpen ==
  /\ round.ask = "gate" /\ Asked
  /\ \E sample \in Answers(RequestRateQuery(world["canary"])) :
       IF floor <= 0 THEN round' = [round EXCEPT !.ask = First(<<>>)]
       ELSE IF sample.err THEN allChecks("Error")
       ELSE IF sample.count = 1 /\ Less(sample.value, Whole(floor)) THEN allChecks("Inconclusive")
       ELSE round' = [round EXCEPT !.ask = First(<<>>)]

(* gateOnTraffic: without enough traffic no metric is asked at all; a      *)
(* floor of zero asks nothing and stops nothing.                           *)
gateOnTraffic ==
  /\ round.ask = "gate" /\ Asked
  /\ \E sample \in Answers(RequestRateQuery(world["canary"])) :
       IF floor <= 0 THEN round' = [round EXCEPT !.ask = First(<<>>)]
       ELSE IF sample.err THEN allChecks("Error")
       ELSE IF sample.count # 1 \/ Less(sample.value, Whole(floor)) THEN allChecks("Inconclusive")
       ELSE round' = [round EXCEPT !.ask = First(<<>>)]

(* runOne for output-token-rate asks for enough samples first, of the      *)
(* canary and, for a comparison, of the primary.                           *)
usageSamples ==
  /\ round.ask \in {"usage", "usage of primary"} /\ Asked
  /\ \E sample \in Answers(UsageSamplesQuery(
                     world[IF round.ask = "usage" THEN "canary" ELSE "primary"])) :
       IF sample.err THEN Judge("Error")
       ELSE IF sample.count # 1 \/ Less(sample.value, Whole(MinUsage)) THEN Judge("Inconclusive")
       ELSE round' = [round EXCEPT !.ask = IF round.ask = "usage" /\ Metric.compare
                                           THEN "usage of primary" ELSE "measure"]

(* Query: one expression, so both variants are read at one time.           *)
Query(m) ==
  LET canary == builtinQuery(m.query, world["canary"])
  IN  IF m.compare THEN RatioQuery(canary, builtinQuery(m.query, world["primary"])) ELSE canary

runOne ==
  /\ round.ask = "measure" /\ Asked
  /\ \E sample \in IF Metric.query = "raw" THEN RawAnswers ELSE Answers(Query(Metric)) :
       Judge(Evaluate(Metric, sample))

(* Traffic to a variant stops between two queries.                         *)
Drain(v) ==
  /\ round.ask # "done"
  /\ world' = [world EXCEPT ![v] = Quiet(@)] /\ world' # world
  /\ UNCHANGED <<metrics, floor, round, began>>

Next ==
  \/ gateOnTraffic \/ usageSamples \/ runOne
  \/ Drain("canary") \/ Drain("primary")

Spec == Init /\ [][Next]_vars

-----------------------------------------------------------------------------
(* Properties *)

Judged(i) == Len(round.checks) < i /\ i <= Len(round'.checks)

Served(s) == s.requests # None /\ s.requests > 0

(* What a metric is about, without PromQL: a share of what was served, a   *)
(* quantile or a rate that was recorded.                                   *)
Truth(b, s) ==
  CASE b = "error-rate"   -> Num(IF s.errors = None THEN 0 ELSE s.errors, s.requests)
    [] b = "success-rate" -> Num(s.requests - (IF s.errors = None THEN 0 ELSE s.errors), s.requests)
    [] b = "quantile"     -> Num(s.latency, 1)
    [] OTHER              -> Num(s.usage, 1)

Recorded(b, s) == Served(s) /\ (b \notin {"output-chunk-rate", "output-token-rate"} \/ s.usage # None)

(* In range, by cross-multiplication: the canary's value against the bound *)
(* or, for a comparison, against the bound times the primary's.            *)
Within(m, c, p) ==
  LET against(q) == IF m.compare THEN Num(q.n * p.n, q.d * p.d) ELSE q
  IN  /\ m.min # None => ~Less(c, against(m.min))
      /\ m.max # None => ~Less(against(m.max), c)

(* When both sides have recorded what a built-in metric is about, a check  *)
(* that was answered is decided, and by what was recorded: a canary        *)
(* without a single error passes an error-rate check (builtin.go:225-237), *)
(* the bounds are inclusive, and nothing is left open for want of a series.*)
EvidenceDecides ==
  [][\A i \in DOMAIN metrics :
       LET m == metrics[i]
           c == Truth(m.query, world["canary"])
           p == Truth(m.query, world["primary"])
       IN  ( /\ Judged(i) /\ round.ask = "measure" /\ m.query # "raw"
             /\ Recorded(m.query, world["canary"])
             /\ m.compare => /\ Recorded(m.query, world["primary"])
                             /\ p.n > 0 \/ m.min = None
             /\ round'.checks[i] # "Error" )
           => round'.checks[i] = IF Within(m, c, p) THEN "Pass" ELSE "Fail"]_vars

(* No check passes or fails on silence ("healthy because empty"): a        *)
(* verdict that counts needs a canary that was served at the floor or      *)
(* above when the round began, unless the spec turns the floor off; a      *)
(* quantile needs one that is served still; and an outage of the provider  *)
(* yields no verdict.                                                      *)
SilenceIsNoEvidence ==
  [][\A i \in DOMAIN metrics :
       Judged(i) /\ round'.checks[i] \in {"Pass", "Fail"} =>
         /\ round.ask = "measure"
         /\ floor > 0 => Served(began["canary"]) /\ began["canary"].requests >= floor
         /\ metrics[i].query = "quantile" => Served(world["canary"])]_vars

(* "the request rate, per second and per variant, below which a check is   *)
(* Inconclusive rather than Pass" (analysis_types.go:103): a comparison    *)
(* does not pass against a primary that was served less than that.         *)
FloorPerVariant ==
  [][\A i \in DOMAIN metrics :
       floor > 0 /\ Judged(i) /\ metrics[i].compare /\ round'.checks[i] = "Pass" =>
         began["primary"].requests # None /\ began["primary"].requests >= floor]_vars
=============================================================================
