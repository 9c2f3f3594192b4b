--------------------------- MODULE AlgorithmProofs ----------------------------
(***************************************************************************)
(* The algorithms of MCEvidence for every value of their constants: the    *)
(* replica split, whose bound MaxTotal is an arbitrary number here; the    *)
(* traffic share in the status; and the analysis round.                    *)
(* The split rests on lemmas about the operators of Weights.  The other    *)
(* two are state machines, each with an inductive invariant of its own     *)
(* (ShareInv, RoundInv).                                                   *)
(***************************************************************************)
EXTENDS MCEvidence, TLAPS

W == INSTANCE WellFoundedInduction

(* Split never adds or loses a pod, and keeps both sides within the total  *)
(* (weights.go, Split): the canary has a pod whenever there are two to     *)
(* divide and a positive weight, the primary one below 100%.               *)
LEMMA SplitBounds ==
  ASSUME NEW t \in Nat, NEW w \in Nat
  PROVE  LET s == Split(t, w)
         IN  /\ s \in [primary : Nat, canary : Nat]
             /\ s.primary + s.canary = t
             /\ (w > 0 /\ t > 1) => s.canary >= 1
             /\ (w < 100 /\ t > 0) => s.primary >= 1
  <1> DEFINE up == (t * w + 99) \div 100
  <1>1. t * w + 99 \in Nat
    OBVIOUS
  <1>2. up \in Nat
    BY <1>1
  <1> HIDE DEF up
  <1>3. QED
    BY <1>2 DEF Split, CanaryShare, up

Typed == total \in Nat /\ weight \in 0..100

LEMMA TypedInductive == Spec => []Typed
  <1>1. Init => Typed
    BY DEF Init, Typed
  <1>2. Typed /\ [Next]_vars => Typed'
    BY MaxTotalAssumption DEF Typed, Next, Scale, Reweigh, vars
  <1>3. QED
    BY <1>1, <1>2, PTL DEF Spec

(* The contract written above Split holds at every total and weight, not   *)
(* only up to the bound of the run.                                        *)
THEOREM SplitContractHolds == Spec => []SplitContract
  <1>1. Typed => SplitContract
    <2> SUFFICES ASSUME Typed PROVE SplitContract
      BY Zenon
    <2>1. total \in Nat /\ weight \in Nat
      BY DEF Typed
    <2> DEFINE s == Split(total, weight)
    <2>2. /\ s \in [primary : Nat, canary : Nat]
          /\ s.primary + s.canary = total
          /\ (weight > 0 /\ total > 1) => s.canary >= 1
          /\ (weight < 100 /\ total > 0) => s.primary >= 1
      BY <2>1, SplitBounds, Zenon
    <2> HIDE DEF s
    <2>3. s.primary \in Nat /\ s.canary \in Nat
      BY <2>2, Zenon
    <2>4. QED
      BY <2>2, <2>3 DEF SplitContract, s
  <1>2. QED
    BY <1>1, TypedInductive, PTL

-----------------------------------------------------------------------------
(* Rounding up: the smallest number of pods whose share reaches the weight.*)
LEMMA RoundedUp ==
  ASSUME NEW t \in Nat, NEW w \in Nat
  PROVE  LET up == (t * w + 99) \div 100
         IN  up \in Nat /\ up * 100 >= t * w /\ up * 100 < t * w + 100
  <1> DEFINE p == t * w
  <1>1. p \in Nat
    OBVIOUS
  <1> HIDE DEF p
  <1>2. LET up == (p + 99) \div 100
        IN  up \in Nat /\ up * 100 >= p /\ up * 100 < p + 100
    BY <1>1
  <1>3. QED
    BY <1>2, Zenon DEF p

(* Multiplication preserves order, the one fact about products used below. *)
LEMMA ProductsGrow ==
  ASSUME NEW a \in Nat, NEW b \in Nat, NEW c \in Nat, NEW d \in Nat,
         a <= c, b <= d
  PROVE  a * b <= c * d
  <1>1. PICK x \in Nat : c = a + x
    BY c - a \in Nat
  <1>2. PICK y \in Nat : d = b + y
    BY d - b \in Nat
  <1>3. (a + x) * (b + y) = a * b + a * y + x * b + x * y
    OBVIOUS
  <1>4. a * y \in Nat /\ x * b \in Nat /\ x * y \in Nat /\ a * b \in Nat
    OBVIOUS
  <1>5. QED
    BY <1>1, <1>2, <1>3, <1>4

(* A heavier rung or a larger total never shrinks the canary.              *)
LEMMA CanaryGrows ==
  ASSUME NEW t \in Nat, NEW w \in Nat, NEW u \in Nat, NEW v \in Nat,
         t <= u, w <= v
  PROVE  Split(t, w).canary <= Split(u, v).canary
  <1> DEFINE a == (t * w + 99) \div 100
             b == (u * v + 99) \div 100
  <1>1. t * w <= u * v
    BY ProductsGrow, Zenon
  <1>2. /\ a \in Nat /\ a * 100 >= t * w /\ a * 100 < t * w + 100
        /\ b \in Nat /\ b * 100 >= u * v /\ b * 100 < u * v + 100
    BY RoundedUp
  <1>3. t * w \in Nat /\ u * v \in Nat
    OBVIOUS
  <1> HIDE DEF a, b
  <1>4. a <= b
    BY <1>1, <1>2, <1>3
  <1>5. CASE v >= 100
    BY <1>5, <1>2 DEF Split, CanaryShare, a
  <1>6. CASE v < 100
    BY <1>6, <1>2, <1>4 DEF Split, CanaryShare, a, b
  <1>7. QED
    BY <1>5, <1>6
(* A larger total at the same rung never shrinks the primary.              *)
LEMMA PrimaryGrows ==
  ASSUME NEW t \in Nat, NEW u \in Nat, NEW w \in 0..100, t <= u
  PROVE  Split(t, w).primary <= Split(u, w).primary
  <1> DEFINE a == (t * w + 99) \div 100
             b == (u * w + 99) \div 100
             d == u - t
  <1>1. w \in Nat /\ d \in Nat /\ u = t + d
    OBVIOUS
  <1>2. /\ a \in Nat /\ a * 100 >= t * w
        /\ b \in Nat /\ b * 100 < u * w + 100
    BY <1>1, RoundedUp
  <1>3. (t + d) * w = t * w + d * w
    BY <1>1
  <1>4. d * w <= d * 100
    BY <1>1, ProductsGrow
  <1>5. t * w \in Nat /\ d * w \in Nat /\ u * w \in Nat
    BY <1>1
  <1> HIDE DEF a, b, d
  <1>6. b <= a + d
    BY <1>1, <1>2, <1>3, <1>4, <1>5
  <1>7. QED
    BY <1>1, <1>2, <1>6 DEF Split, CanaryShare, a, b

(* No scale-up takes a pod from either side and no climb shrinks the       *)
(* canary, whatever the total.                                             *)
THEOREM NeitherSideShrinksHolds == Spec => NeitherSideShrinks
  <1> DEFINE A == (total' >= total /\ weight' >= weight) =>
                    /\ Split(total', weight').canary >= Split(total, weight).canary
                    /\ (weight' = weight) =>
                         Split(total', weight').primary >= Split(total, weight).primary
  <1>1. Typed /\ Typed' => A
    <2> SUFFICES ASSUME Typed, Typed', total' >= total, weight' >= weight
                 PROVE  /\ Split(total', weight').canary >= Split(total, weight).canary
                        /\ (weight' = weight) =>
                             Split(total', weight').primary >= Split(total, weight).primary
      BY Zenon
    <2>1. /\ total \in Nat /\ weight \in 0..100 /\ weight \in Nat
          /\ total' \in Nat /\ weight' \in 0..100 /\ weight' \in Nat
      BY DEF Typed
    <2>2. Split(total, weight).canary <= Split(total', weight').canary
      BY <2>1, CanaryGrows, Zenon
    <2>3. ASSUME weight' = weight
          PROVE  Split(total, weight).primary <= Split(total', weight').primary
      BY <2>1, <2>3, PrimaryGrows, Zenon
    <2>4. /\ Split(total, weight) \in [primary : Nat, canary : Nat]
          /\ Split(total', weight') \in [primary : Nat, canary : Nat]
      BY <2>1, SplitBounds, Zenon
    <2>5. /\ Split(total, weight).primary \in Nat /\ Split(total, weight).canary \in Nat
          /\ Split(total', weight').primary \in Nat
          /\ Split(total', weight').canary \in Nat
      BY <2>4, Zenon
    <2> QED
      BY <2>2, <2>3, <2>5, Zenon
  <1>2. Typed /\ Typed' => [A]_vars
    BY <1>1, Zenon
  <1>3. QED
    BY <1>2, TypedInductive, PTL DEF NeitherSideShrinks

-----------------------------------------------------------------------------
LEMMA QuotientAtLeast ==
  ASSUME NEW x \in Nat, NEW t \in Nat, NEW w \in Nat, t > 0, x >= t * w
  PROVE  x \div t >= w
  <1> DEFINE q == x \div t
  <1>1. q \in Nat /\ x < t * (q + 1)
    OBVIOUS
  <1> HIDE DEF q
  <1>2. ASSUME q < w PROVE FALSE
    <2>1. q + 1 \in Nat /\ q + 1 <= w
      BY <1>1, <1>2
    <2>2. t * (q + 1) <= t * w
      BY <2>1, ProductsGrow
    <2>3. t * (q + 1) \in Nat /\ t * w \in Nat
      BY <1>1
    <2> QED
      BY <1>1, <2>2, <2>3
  <1>3. QED
    BY <1>1, <1>2 DEF q

LEMMA QuotientBelow ==
  ASSUME NEW x \in Nat, NEW t \in Nat, NEW w \in Nat, t > 0, x < t * (w + 1)
  PROVE  x \div t <= w
  <1> DEFINE q == x \div t
  <1>1. q \in Nat /\ t * q <= x
    OBVIOUS
  <1> HIDE DEF q
  <1>2. ASSUME q > w PROVE FALSE
    <2>1. w + 1 \in Nat /\ w + 1 <= q
      BY <1>1, <1>2
    <2>2. t * (w + 1) <= t * q
      BY <1>1, <2>1, ProductsGrow
    <2>3. t * (w + 1) \in Nat /\ t * q \in Nat
      BY <1>1, <2>1
    <2> QED
      BY <1>1, <2>2, <2>3
  <1>3. QED
    BY <1>1, <1>2 DEF q

(* The share an operator reads back is never below the one they asked for  *)
(* while the primary has a pod to give, and an exact split is reported as  *)
(* exact, at every total.                                                  *)
THEOREM ExposureHolds == Spec => []ExposureAtLeastRequested
  <1>1. Typed => ExposureAtLeastRequested
    <2> SUFFICES ASSUME Typed, total > 0 PROVE ExposureAtLeastRequested
      BY Zenon DEF ExposureAtLeastRequested
    <2> DEFINE s == Split(total, weight)
               h == total \div 2
               x == s.canary * 100 + h
               p == total * weight
    <2>1. total \in Nat /\ weight \in Nat /\ weight <= 100 /\ h \in Nat /\ h < total
      BY DEF Typed
    <2>2. /\ s.primary \in Nat /\ s.canary \in Nat
          /\ s.primary + s.canary = total
      BY <2>1, SplitBounds, Zenon
    <2>3. p \in Nat /\ x \in Nat /\ total * (weight + 1) = p + total
      BY <2>1, <2>2
    <2>4. RealizedWeight(s.primary, s.canary) = x \div total
      BY <2>1, <2>2 DEF RealizedWeight
    <2>5. s.primary # 1 => s.canary * 100 >= p
      <3> DEFINE up == (p + 99) \div 100
      <3>1. up \in Nat /\ up * 100 >= p
        BY <2>1, RoundedUp
      <3>2. weight = 0 => p = 0
        BY <2>1
      <3>3. weight = 100 => p = total * 100
        BY Zenon
      <3> HIDE DEF up, p
      <3>4. s.canary = IF weight = 0 THEN 0 ELSE IF weight = 100 THEN total
                       ELSE CanaryShare(total, weight)
        BY <2>1 DEF Split
      <3>5. CanaryShare(total, weight) = IF up < 1 THEN (IF total <= 1 THEN total - 1 ELSE 1)
                                         ELSE IF up >= total THEN total - 1 ELSE up
        BY <2>1, <3>1, Zenon DEF CanaryShare, up, p
      <3> HIDE DEF s
      <3> QED
        BY <2>1, <2>2, <2>3, <3>1, <3>2, <3>3, <3>4, <3>5
    <2> HIDE DEF s, h, p
    <2>6. s.primary # 1 => x \div total >= weight
      <3> SUFFICES ASSUME s.primary # 1 PROVE x \div total >= weight
        BY Zenon
      <3>1. x >= total * weight
        BY <2>1, <2>2, <2>3, <2>5 DEF p
      <3> QED
        BY <3>1, <2>1, <2>3, QuotientAtLeast, Zenon
    <2>7. s.canary * 100 = p => x \div total = weight
      <3> SUFFICES ASSUME s.canary * 100 = p PROVE x \div total = weight
        BY Zenon
      <3>1. x >= total * weight /\ x < total * (weight + 1)
        BY <2>1, <2>2, <2>3 DEF p
      <3>2. x \div total >= weight /\ x \div total <= weight
        BY <3>1, <2>1, <2>3, QuotientAtLeast, QuotientBelow, Zenon
      <3>3. x \div total \in Nat
        BY <2>1, <2>3
      <3> QED
        BY <3>2, <3>3, <2>1
    <2>8. x \div total \in Nat
      BY <2>1, <2>3
    <2> HIDE DEF x
    <2>9. QED
      BY <2>1, <2>4, <2>6, <2>7, <2>8 DEF ExposureAtLeastRequested, IsQuantized, s, p
  <1>2. QED
    BY <1>1, TypedInductive, PTL

-----------------------------------------------------------------------------
(* Numbers. *)

LEMMA LeastNat ==
  ASSUME NEW T, T \subseteq Nat, T # {}
  PROVE  \E x \in T : \A y \in T : x <= y
  <1>1. PICK x \in T : \A y \in T : ~ (<<y, x>> \in W!OpToRel(<, Nat))
    BY W!NatLessThanWellFounded, W!WFMin, Zenon
  <1>2. ASSUME NEW y \in T PROVE x <= y
    <2>1. x \in Nat /\ y \in Nat
      BY Zenon
    <2>2. y < x => <<y, x>> \in W!OpToRel(<, Nat)
      BY <2>1 DEF W!OpToRel
    <2>3. ~(y < x)
      BY <1>1, <2>2, Zenon
    <2>4. QED
      BY <2>1, <2>3
  <1>3. QED
    BY <1>2

(* A finite set of numbers has a largest one.                              *)
LEMMA MaxIsLargest ==
  ASSUME NEW S1, S1 \subseteq Nat, S1 # {}, IsFiniteSet(S1)
  PROVE  \E m \in S1 : \A x \in S1 : m >= x
  <1>1. PICK seq \in Seq(S1) : \A s \in S1 : \E n \in 1..Len(seq) : seq[n] = s
    BY Zenon DEF IsFiniteSet
  <1> DEFINE n == Len(seq)
             T == { k \in 1..n : \A m \in S1 : \E i \in 1..k : ~(seq[i] <= m) }
  <1>2. n \in Nat /\ \A i \in 1..n : seq[i] \in S1
    OBVIOUS
  <1>3. n > 0
    <2>1. PICK s \in S1 : TRUE
      BY Zenon
    <2>2. PICK i \in 1..n : seq[i] = s
      BY <1>1, Zenon
    <2>3. i \in 1..n
      BY Zenon
    <2> HIDE DEF n
    <2>4. QED
      BY <1>2, <2>3
  <1> HIDE DEF n
  <1>4. T = {}
    <2> SUFFICES ASSUME T # {} PROVE FALSE
      OBVIOUS
    <2>1. PICK k \in T : \A j \in T : k <= j
      <3>1. T \subseteq Nat
        BY <1>2
      <3> HIDE DEF T
      <3>2. QED
        BY <3>1, LeastNat, Zenon
    <2>2. k \in 1..n /\ \A m \in S1 : \E i \in 1..k : ~(seq[i] <= m)
      BY Zenon
    <2>3. CASE k = 1
      <3>1. seq[1] \in S1 /\ 1 \in 1..n
        BY <1>2, <1>3
      <3>2. \E i \in 1..1 : ~(seq[i] <= seq[1])
        BY <2>2, <2>3, <3>1, Zenon
      <3>3. \A i \in 1..1 : i = 1
        OBVIOUS
      <3>4. ~(seq[1] <= seq[1]) /\ seq[1] \in Nat
        BY <3>1, <3>2, <3>3, Zenon
      <3>5. QED
        BY <3>4
    <2>4. CASE k # 1
      <3>1. k - 1 \in 1..n /\ ~(k <= k - 1)
        BY <1>2, <2>2, <2>4
      <3>2. k - 1 \notin T
        BY <2>1, <3>1, Zenon
      <3>3. PICK m \in S1 : \A i \in 1..(k-1) : seq[i] <= m
        BY <3>1, <3>2, Zenon
      <3>4. seq[k] \in S1
        BY <1>2, <2>2
      <3>5. PICK b \in S1 : b >= m /\ b >= seq[k]
        <4>1. m \in Nat /\ seq[k] \in Nat
          BY <3>4, Zenon
        <4>2. m >= m /\ seq[k] >= seq[k] /\ (m >= seq[k] \/ seq[k] >= m)
          BY <4>1
        <4>3. QED
          BY <4>2, <3>4, Zenon
      <3>6. ASSUME NEW i \in 1..k PROVE seq[i] <= b
        <4>1. /\ i = k \/ i \in 1..(k-1)
              /\ i \in 1..n
          BY <1>2, <2>2
        <4>2. seq[i] \in Nat /\ m \in Nat /\ b \in Nat
          BY <1>2, <4>1, Zenon
        <4>3. seq[i] <= m \/ b >= seq[i]
          BY <3>3, <3>5, <4>1, Zenon
        <4>4. QED
          BY <4>2, <4>3, <3>5
      <3>7. QED
        BY <2>2, <3>6, Zenon
    <2>5. QED
      BY <2>3, <2>4
  <1>5. n \in 1..n
    BY <1>2, <1>3
  <1>6. PICK m \in S1 : \A i \in 1..n : seq[i] <= m
    BY <1>4, <1>5, Zenon
  <1>7. ASSUME NEW x \in S1 PROVE m >= x
    <2>1. PICK i \in 1..n : seq[i] = x
      BY <1>1, Zenon DEF n
    <2>2. x <= m /\ x \in Nat /\ m \in Nat
      BY <1>6, <2>1, Zenon
    <2>3. QED
      BY <2>2
  <1>8. QED
    BY <1>7

-----------------------------------------------------------------------------
(* The traffic share (canary_exposure.go).                                 *)
(* What holds between two steps of Exposure: a measured share was taken    *)
(* over a window some plan has, its age and the time to the next pass      *)
(* together stay within that window, and it is of this trial.              *)
ShareInv ==
  /\ plan \in Plans /\ due \in Nat
  /\ trial \in [id : {0, 1}, since : Nat \cup {None}]
  /\ shown = [reason |-> shown.reason, weight |-> shown.weight, at |-> shown.at,
              window |-> shown.window, of |-> shown.of]
  /\ shown.at \in Nat \cup {None}
  /\ shown.weight # None => /\ shown.at \in Nat /\ shown.window \in Windows
                            /\ due # 0 => shown.at + due <= shown.window
  /\ ShownIsOfThisTrial

(* Cap is beyond every age that is compared with a window.                 *)
LEMMA CapIsBeyond ==
  ASSUME plan \in Plans
  PROVE  /\ X!MaxWindow \in Nat /\ X!Cap \in Nat
         /\ \A w \in Windows : w < X!Cap
  <1>1. /\ plan.delay \in Delays /\ plan.interval \in Intervals /\ plan.window \in Windows
    BY DEF Plans
  <1>2. {p.window : p \in Plans} = Windows
    <2>1. ASSUME NEW w \in Windows PROVE \E p \in Plans : p.window = w
      <3>1. [delay |-> plan.delay, interval |-> plan.interval, window |-> w] \in Plans
        BY <1>1 DEF Plans
      <3>2. QED
        BY <3>1
    <2>2. \A p \in Plans : p.window \in Windows
      BY DEF Plans
    <2>3. QED
      BY <2>1, <2>2
  <1>3. {p.delay : p \in Plans} = Delays
    <2>1. ASSUME NEW d \in Delays PROVE \E p \in Plans : p.delay = d
      <3>1. [delay |-> d, interval |-> plan.interval, window |-> plan.window] \in Plans
        BY <1>1 DEF Plans
      <3>2. QED
        BY <3>1
    <2>2. \A p \in Plans : p.delay \in Delays
      BY DEF Plans
    <2>3. QED
      BY <2>1, <2>2
  <1>4. /\ \E m \in Windows : \A x \in Windows : m >= x
        /\ \E m \in Delays : \A x \in Delays : m >= x
    <2>1. /\ Windows \subseteq Nat /\ Windows # {} /\ IsFiniteSet(Windows)
          /\ Delays \subseteq Nat /\ Delays # {} /\ IsFiniteSet(Delays)
      BY <1>1, ShareAssumption, Zenon
    <2>2. QED
      BY <2>1, MaxIsLargest, Zenon
  <1>5. X!MaxWindow \in Windows /\ \A x \in Windows : X!MaxWindow >= x
    <2>1. X!MaxWindow = CHOOSE x \in Windows : \A y \in Windows : x >= y
      BY <1>2, Zenon DEF X!MaxWindow, X!Max
    <2>2. QED
      BY <1>4, <2>1, Zenon
  <1>6. X!Max({p.delay : p \in Plans}) \in Delays
    <2>1. X!Max({p.delay : p \in Plans}) = CHOOSE x \in Delays : \A y \in Delays : x >= y
      BY <1>3, Zenon DEF X!Max
    <2>2. QED
      BY <1>4, <2>1, Zenon
  <1>7. X!MaxWindow \in Nat /\ X!Max({p.delay : p \in Plans}) \in Nat
    BY <1>5, <1>6, ShareAssumption, Zenon
  <1>8. X!Cap \in Nat /\ X!Cap > X!MaxWindow
    BY <1>7 DEF X!Cap
  <1>9. ASSUME NEW w \in Windows PROVE w < X!Cap
    <2>1. w \in Nat /\ X!MaxWindow >= w
      BY <1>5, ShareAssumption, Zenon
    <2>2. QED
      BY <1>7, <1>8, <2>1
  <1>10. QED
    BY <1>7, <1>8, <1>9

LEMMA ShareInit ==
  ASSUME X!Init
  PROVE  ShareInv
  BY DEF X!Init, X!Nothing, ShareInv, ShownIsOfThisTrial, X!ShownIsOfThisTrial

(* Time passes: the share and the trial age alike.                         *)
LEMMA ShareTick ==
  ASSUME ShareInv, X!Tick
  PROVE  ShareInv'
  <1>1. /\ plan \in Plans /\ due \in Nat /\ due # 0
        /\ trial.id \in {0, 1} /\ trial.since \in Nat \cup {None}
        /\ shown.at \in Nat \cup {None}
        /\ shown.weight # None => /\ shown.at \in Nat /\ shown.window \in Windows
                                  /\ shown.at + due <= shown.window
                                  /\ shown.of = trial.id /\ trial.since # None
                                  /\ \/ trial.since = X!Cap
                                     \/ trial.since - shown.at >= plan.delay + plan.window
    BY DEF ShareInv, X!Tick, ShownIsOfThisTrial, X!ShownIsOfThisTrial
  <1>2. /\ plan' = plan /\ due' = due - 1
        /\ trial' \in [id : {trial.id}, since : {X!Older(trial.since)}]
        /\ trial'.id = trial.id /\ trial'.since = X!Older(trial.since)
        /\ shown' = [reason |-> shown.reason, weight |-> shown.weight, at |-> X!Older(shown.at),
                     window |-> shown.window, of |-> shown.of]
    BY DEF ShareInv, X!Tick
  <1>3. /\ shown'.weight = shown.weight /\ shown'.at = X!Older(shown.at)
        /\ shown'.window = shown.window /\ shown'.of = shown.of /\ shown'.reason = shown.reason
    BY <1>2
  <1>4. X!Cap \in Nat /\ \A w \in Windows : w < X!Cap
    BY <1>1, CapIsBeyond, Zenon
  <1>5. /\ plan.delay \in Nat /\ plan.window \in Nat
        /\ \A w \in Windows : w \in Nat
    BY <1>1, ShareAssumption, Zenon DEF Plans
  <1>6. \A a \in Nat \cup {None} : X!Older(a) \in Nat \cup {None} /\ (X!Older(a) = None <=> a = None)
    BY <1>4, ShareAssumption DEF X!Older
  <1>7. shown.weight # None =>
          /\ X!Older(shown.at) = shown.at + 1 /\ shown.at + due <= shown.window
          /\ \/ X!Older(trial.since) = X!Cap
             \/ X!Older(trial.since) - (shown.at + 1) >= plan.delay + plan.window
    <2> SUFFICES ASSUME shown.weight # None PROVE
          /\ X!Older(shown.at) = shown.at + 1 /\ shown.at + due <= shown.window
          /\ \/ X!Older(trial.since) = X!Cap
             \/ X!Older(trial.since) - (shown.at + 1) >= plan.delay + plan.window
      BY Zenon
    <2>1. /\ shown.at \in Nat /\ shown.window \in Nat /\ shown.window < X!Cap
          /\ shown.at + due <= shown.window /\ trial.since \in Nat
          /\ \/ trial.since = X!Cap
             \/ trial.since - shown.at >= plan.delay + plan.window
      BY <1>1, <1>4, <1>5, Zenon
    <2>2. QED
      BY <1>1, <1>4, <1>5, <2>1, ShareAssumption DEF X!Older
  <1>8. /\ plan' \in Plans /\ due' \in Nat
        /\ trial' \in [id : {0, 1}, since : Nat \cup {None}]
        /\ shown' = [reason |-> shown'.reason, weight |-> shown'.weight, at |-> shown'.at,
                     window |-> shown'.window, of |-> shown'.of]
        /\ shown'.at \in Nat \cup {None}
    <2>1. trial' \in [id : {0, 1}, since : Nat \cup {None}]
      BY <1>1, <1>2, <1>6, Zenon
    <2>2. shown'.at \in Nat \cup {None}
      BY <1>1, <1>3, <1>6, Zenon
    <2>3. due' \in Nat
      BY <1>1, <1>2
    <2>4. QED
      BY <1>1, <1>2, <1>3, <2>1, <2>2, <2>3, Zenon
  <1>9. shown'.weight # None =>
          /\ shown'.at \in Nat /\ shown'.window \in Windows
          /\ shown'.at + due' <= shown'.window /\ shown'.at <= shown'.window
          /\ shown'.of = trial'.id /\ trial'.since # None
          /\ \/ trial'.since = X!Cap
             \/ trial'.since - shown'.at >= plan.delay + plan.window
    <2> SUFFICES ASSUME shown.weight # None PROVE
          /\ shown'.at \in Nat /\ shown'.window \in Windows
          /\ shown'.at + due' <= shown'.window /\ shown'.at <= shown'.window
          /\ shown'.of = trial'.id /\ trial'.since # None
          /\ \/ trial'.since = X!Cap
             \/ trial'.since - shown'.at >= plan.delay + plan.window
      BY <1>3, Zenon
    <2>1. shown.window \in Nat /\ shown.at \in Nat
      BY <1>1, <1>5, Zenon
    <2>2. shown'.at = shown.at + 1
      BY <1>3, <1>7, Zenon
    <2>3. shown'.at \in Nat /\ shown'.at + due' <= shown'.window /\ shown'.at <= shown'.window
      BY <1>1, <1>2, <1>3, <2>1, <2>2
    <2>4. /\ shown'.window \in Windows /\ shown'.of = trial'.id /\ trial'.since # None
      BY <1>1, <1>2, <1>3, <1>6, Zenon
    <2>5. \/ trial'.since = X!Cap
          \/ trial'.since - shown'.at >= plan.delay + plan.window
      BY <1>2, <1>7, <2>2, Zenon
    <2>6. QED
      BY <2>3, <2>4, <2>5, Zenon
  <1>10. X!Cap' = X!Cap
    BY Zenon DEF X!Cap, X!MaxWindow, Plans
  <1>11. ShownIsOfThisTrial'
    BY <1>2, <1>9, <1>10, Zenon DEF ShownIsOfThisTrial, X!ShownIsOfThisTrial
  <1>12. QED
    BY <1>8, <1>9, <1>11, Zenon DEF ShareInv

(* A pass shows nothing, shows an observation again, or samples anew.      *)
LEMMA SharePass ==
  ASSUME ShareInv, X!Pass
  PROVE  ShareInv'
  <1>1. /\ plan \in Plans /\ trial \in [id : {0, 1}, since : Nat \cup {None}]
        /\ shown = [reason |-> shown.reason, weight |-> shown.weight, at |-> shown.at,
                    window |-> shown.window, of |-> shown.of]
        /\ shown.at \in Nat \cup {None}
        /\ shown.weight # None => shown.at \in Nat /\ shown.window \in Windows
    BY Zenon DEF ShareInv
  <1>2. plan' = plan /\ X!observeCanaryTraffic
    BY Zenon DEF X!Pass
  <1>3. trial' \in [id : {0, 1}, since : Nat \cup {None}]
    BY <1>1 DEF X!Pass
  <1>4. /\ plan.delay \in Nat /\ plan.window \in Windows /\ plan.window \in Nat /\ plan.interval \in Nat
    BY <1>1, ShareAssumption DEF Plans
  <1>5. X!retention \in Nat /\ X!retention <= plan.window
    BY <1>4 DEF X!retention, X!Min
  <1>6. X!Cap' = X!Cap /\ X!MaxWindow \in Nat
    BY <1>1, CapIsBeyond DEF X!Cap, X!MaxWindow, Plans
  <1>7. CASE shown' = X!Nothing /\ due' \in 1..X!MaxWindow
    <2>1. due' \in Nat
      BY <1>6, <1>7
    <2>2. /\ shown' = [reason |-> shown'.reason, weight |-> shown'.weight, at |-> shown'.at,
                       window |-> shown'.window, of |-> shown'.of]
          /\ shown'.at = None /\ shown'.weight = None
      BY <1>7 DEF X!Nothing
    <2>3. QED
      BY <1>1, <1>2, <1>3, <2>1, <2>2, Zenon DEF ShareInv, ShownIsOfThisTrial, X!ShownIsOfThisTrial
  <1>8. CASE /\ ~(trial'.since = None \/ trial'.since < plan.delay + plan.window)
             /\ X!reusable /\ shown' = shown /\ due' \in 1..(X!retention - shown.at)
    <2>1. /\ shown.of = trial'.id /\ shown.at \in Nat /\ shown.window = plan.window
          /\ trial'.since - shown.at >= plan.delay + plan.window
      BY <1>1, <1>8, Zenon DEF X!reusable
    <2>2. due' \in Nat /\ shown.at + due' <= shown.window /\ shown.at <= shown.window
      BY <1>4, <1>5, <1>8, <2>1
    <2>3. ShownIsOfThisTrial'
      BY <1>2, <1>6, <1>8, <2>1, <2>2, Zenon DEF ShownIsOfThisTrial, X!ShownIsOfThisTrial
    <2>4. QED
      BY <1>1, <1>2, <1>3, <1>8, <2>1, <2>2, <2>3, Zenon DEF ShareInv
  <1>9. CASE /\ ~(trial'.since = None \/ trial'.since < plan.delay + plan.window)
             /\ shown' \in X!sampleCanaryTraffic /\ due' \in 1..X!retention
    <2>1. /\ shown' = [reason |-> shown'.reason, weight |-> shown'.weight, at |-> shown'.at,
                       window |-> shown'.window, of |-> shown'.of]
          /\ shown'.at = 0 /\ shown'.window = plan.window /\ shown'.of = trial'.id
      BY <1>9 DEF X!sampleCanaryTraffic, X!Plain
    <2>2. due' \in Nat /\ 0 + due' <= plan.window /\ 0 <= plan.window
      BY <1>4, <1>5, <1>9
    <2>3. trial'.since # None /\ trial'.since - 0 >= plan.delay + plan.window
      BY <1>3, <1>4, <1>9
    <2>4. ShownIsOfThisTrial'
      BY <1>2, <2>1, <2>2, <2>3, Zenon DEF ShownIsOfThisTrial, X!ShownIsOfThisTrial
    <2>5. shown'.at \in Nat
      BY <2>1
    <2>6. QED
      BY <1>1, <1>2, <1>3, <1>4, <2>1, <2>2, <2>4, <2>5, Zenon DEF ShareInv
  <1>10. QED
    BY <1>2, <1>7, <1>8, <1>9, Zenon DEF X!observeCanaryTraffic

LEMMA ShareStep ==
  ASSUME ShareInv, [X!Next]_X!vars
  PROVE  ShareInv'
  <1>1. CASE X!Edit
    <2>1. plan' \in Plans /\ due' = 0 /\ due' \in Nat /\ trial' = trial /\ shown' = shown
      BY <1>1 DEF X!Edit
    <2>2. QED
      BY <2>1, Zenon DEF ShareInv, ShownIsOfThisTrial, X!ShownIsOfThisTrial
  <1>2. CASE (\E v \in X!Variants : X!Scrape(v)) \/ UNCHANGED X!vars
    <2>1. plan' = plan /\ due' = due /\ trial' = trial /\ shown' = shown
      BY <1>2, Zenon DEF X!Scrape, X!vars
    <2>2. QED
      BY <2>1, Zenon DEF ShareInv, ShownIsOfThisTrial, X!ShownIsOfThisTrial, X!Cap, X!MaxWindow, Plans
  <1>3. QED
    BY <1>1, <1>2, ShareTick, SharePass, Zenon DEF X!Next

(* A share in the status is of this trial and of its window, whatever the  *)
(* plan is edited to and however often the trial restarts.                 *)
THEOREM ShownAlwaysOfThisTrial == X!Spec => []ShownIsOfThisTrial
  <1>1. ShareInv => ShownIsOfThisTrial
    BY Zenon DEF ShareInv
  <1>2. QED
    BY <1>1, ShareInit, ShareStep, PTL DEF X!Spec

-----------------------------------------------------------------------------
(* The analysis round (analyzer.go).                                       *)
(* What holds between two questions: past the gate the canary was served   *)
(* at the floor when the round began; since then traffic can only have     *)
(* stopped.                                                                *)
Asks == {"gate", "usage", "usage of primary", "measure", "done"}
Verdicts == {"Pass", "Fail", "Inconclusive", "Error"}
Sides == {"canary", "primary"}

RoundInv ==
  /\ metrics \in Seq(R!Metrics \cup R!DefaultMetrics)
  /\ floor \in Nat
  /\ began \in [Sides -> R!Series] /\ world \in [Sides -> R!Series]
  /\ world["canary"].requests \in {began["canary"].requests, 0}
  /\ round \in [ask : Asks, checks : Seq(Verdicts)]
  /\ floor > 0 /\ round.ask \in {"usage", "usage of primary", "measure"} =>
       R!Served(began["canary"]) /\ began["canary"].requests >= floor

(* A variant that has gone quiet is described by its series still.         *)
LEMMA QuietIsSeries ==
  ASSUME NEW s \in R!Series
  PROVE  R!Quiet(s) \in R!Series /\ R!Quiet(s).requests \in {s.requests, 0}
  BY RoundAssumption DEF R!Series, R!Quiet

LEMMA RoundInit ==
  ASSUME R!Init
  PROVE  RoundInv
  <1>1. metrics \in Seq(R!Metrics \cup R!DefaultMetrics)
    <2>1. CASE \E m \in R!Metrics : metrics = <<m>>
      BY <2>1
    <2>2. CASE \E a, b \in R!DefaultMetrics : metrics = <<a, b>>
      BY <2>2
    <2>3. QED
      BY <2>1, <2>2 DEF R!Init
  <1>2. /\ began \in [Sides -> R!Series] /\ world \in [Sides -> R!Series]
        /\ world["canary"].requests \in {began["canary"].requests, 0}
    BY DEF R!Init, Sides
  <1>3. floor \in Nat
    BY RoundAssumption DEF R!Init
  <1>4. round \in [ask : Asks, checks : Seq(Verdicts)] /\ round.ask = "gate"
    BY DEF R!Init, Asks
  <1>5. QED
    BY <1>1, <1>2, <1>3, <1>4 DEF RoundInv

LEMMA FirstAsks ==
  ASSUME NEW checks
  PROVE  R!First(checks) \in Asks
  BY DEF R!First, Asks

(* What each step makes of the verdicts: a verdict on one metric more, the *)
(* same verdict on all, or none.                                           *)
LEMMA GateMeans ==
  ASSUME RoundInv, R!gateOnTraffic
  PROVE  \/ \E v \in {"Error", "Inconclusive"} :
              round' = [ask |-> "done", checks |-> [i \in DOMAIN metrics |-> v]]
         \/ /\ round' = [ask |-> R!First(<<>>), checks |-> round.checks]
            /\ floor > 0 => R!Served(began["canary"]) /\ began["canary"].requests >= floor
  <1> DEFINE r == world["canary"].requests
  <1>1. PICK sample \in R!Answers(R!Whole(r)) :
          IF floor <= 0 THEN round' = [round EXCEPT !.ask = R!First(<<>>)]
          ELSE IF sample.err THEN R!allChecks("Error")
          ELSE IF sample.count # 1 \/ R!Less(sample.value, R!Whole(floor)) THEN R!allChecks("Inconclusive")
          ELSE round' = [round EXCEPT !.ask = R!First(<<>>)]
    BY Zenon DEF R!gateOnTraffic, R!RequestRateQuery
  <1>2. round \in [ask : Asks, checks : Seq(Verdicts)] /\ floor \in Nat
    BY Zenon DEF RoundInv
  <1>3. CASE R!allChecks("Error") \/ R!allChecks("Inconclusive")
    BY <1>3 DEF R!allChecks
  <1>4. CASE round' = [round EXCEPT !.ask = R!First(<<>>)] /\ floor <= 0
    BY <1>2, <1>4
  <1>5. CASE /\ round' = [round EXCEPT !.ask = R!First(<<>>)] /\ floor > 0
             /\ ~sample.err /\ sample.count = 1 /\ ~R!Less(sample.value, R!Whole(floor))
    <2>1. r \in 0..MaxRate \cup {None} /\ r \in {began["canary"].requests, 0}
      BY Zenon DEF RoundInv, R!Series, Sides
    <2>2. r # None /\ sample.value = R!Whole(r)
      BY <1>5, <2>1, RoundAssumption DEF R!Answers, R!Whole
    <2>3. r \in Nat
      BY <2>1, <2>2, RoundAssumption
    <2> HIDE DEF r
    <2>4. R!Whole(r) = [n |-> r, d |-> 1] /\ R!Whole(floor) = [n |-> floor, d |-> 1]
      BY <1>2, <2>3, RoundAssumption DEF R!Whole, R!Num
    <2>5. r >= floor
      BY <1>2, <1>5, <2>2, <2>3, <2>4 DEF R!Less
    <2>6. began["canary"].requests = r
      BY <1>2, <1>5, <2>1, <2>3, <2>5
    <2>7. R!Served(began["canary"]) /\ began["canary"].requests >= floor
      BY <1>2, <1>5, <2>2, <2>3, <2>5, <2>6 DEF R!Served
    <2>8. round' = [ask |-> R!First(<<>>), checks |-> round.checks]
      BY <1>2, <1>5
    <2>9. QED
      BY <2>7, <2>8, Zenon
  <1>6. CASE floor > 0
    BY <1>1, <1>2, <1>3, <1>5, <1>6
  <1>7. CASE ~(floor > 0)
    BY <1>1, <1>2, <1>4, <1>7
  <1>8. QED
    BY <1>6, <1>7, Zenon

LEMMA UsageMeans ==
  ASSUME RoundInv, R!usageSamples
  PROVE  \/ \E v \in {"Error", "Inconclusive"} : R!Judge(v)
         \/ \E a \in {"usage of primary", "measure"} :
              round' = [ask |-> a, checks |-> round.checks]
  <1>1. round \in [ask : Asks, checks : Seq(Verdicts)]
    BY Zenon DEF RoundInv
  <1>2. \/ R!Judge("Error") \/ R!Judge("Inconclusive")
        \/ round' = [round EXCEPT !.ask = IF round.ask = "usage" /\ R!Metric.compare
                                           THEN "usage of primary" ELSE "measure"]
    BY Zenon DEF R!usageSamples
  <1>3. CASE round' = [round EXCEPT !.ask = IF round.ask = "usage" /\ R!Metric.compare
                                           THEN "usage of primary" ELSE "measure"]
    BY <1>1, <1>3, Zenon
  <1>4. QED
    BY <1>2, <1>3, Zenon

LEMMA RunMeans ==
  ASSUME RoundInv, R!runOne
  PROVE  \E sample \in IF R!Metric.query = "raw" THEN R!RawAnswers
                       ELSE R!Answers(R!Query(R!Metric)) :
           R!Judge(R!Evaluate(R!Metric, sample))
  BY Zenon DEF R!runOne

LEMMA JudgeMeans ==
  ASSUME RoundInv, NEW v \in Verdicts, R!Judge(v)
  PROVE  /\ round' \in [ask : Asks, checks : Seq(Verdicts)]
         /\ round'.checks = Append(round.checks, v)
         /\ Len(round'.checks) = Len(round.checks) + 1
         /\ Len(round.checks) \in Nat
         /\ round'.checks[Len(round.checks) + 1] = v
  <1> DEFINE c == Append(round.checks, v)
  <1>1. round.checks \in Seq(Verdicts)
    BY Zenon DEF RoundInv
  <1>2. /\ c \in Seq(Verdicts) /\ Len(c) = Len(round.checks) + 1 /\ Len(round.checks) \in Nat
        /\ c[Len(round.checks) + 1] = v
    BY <1>1
  <1>3. R!First(c) \in Asks
    BY FirstAsks, Zenon
  <1> HIDE DEF c
  <1>4. round' = [ask |-> R!First(c), checks |-> c]
    BY Zenon DEF R!Judge, c
  <1>5. round' \in [ask : Asks, checks : Seq(Verdicts)] /\ round'.checks = c
    BY <1>2, <1>3, <1>4
  <1>6. QED
    BY <1>2, <1>5, Zenon DEF c

LEMMA EvaluateGives ==
  ASSUME NEW m, NEW sample
  PROVE  R!Evaluate(m, sample) \in Verdicts
  BY DEF R!Evaluate, Verdicts

LEMMA SeqShape ==
  ASSUME NEW T, NEW q \in Seq(T)
  PROVE  Len(q) \in Nat /\ DOMAIN q = 1..Len(q)
  OBVIOUS

LEMMA RoundStep ==
  ASSUME RoundInv, [R!Next]_R!vars
  PROVE  RoundInv'
  <1> DEFINE Past == R!Served(began["canary"]) /\ began["canary"].requests >= floor
             Later == {"usage", "usage of primary", "measure"}
  <1>1. /\ metrics \in Seq(R!Metrics \cup R!DefaultMetrics) /\ floor \in Nat
        /\ began \in [Sides -> R!Series] /\ world \in [Sides -> R!Series]
        /\ world["canary"].requests \in {began["canary"].requests, 0}
        /\ round \in [ask : Asks, checks : Seq(Verdicts)]
        /\ floor > 0 /\ round.ask \in Later => Past
    BY Zenon DEF RoundInv
  <1> HIDE DEF Past, Later
  <1>0. round \in [ask : Asks, checks : Seq(Verdicts)]
    BY <1>1, Zenon
  <1>2. ASSUME R!Asked, round' \in [ask : Asks, checks : Seq(Verdicts)],
               floor > 0 /\ round'.ask \in Later => Past
        PROVE  RoundInv'
    <2>1. metrics' = metrics /\ floor' = floor /\ began' = began /\ world' = world
      BY <1>2, Zenon DEF R!Asked
    <2>2. QED
      BY <1>1, <1>2, <2>1, Zenon DEF Past, Later, RoundInv, R!Served, R!Series, R!Metrics, R!DefaultMetrics,
         R!Builtins, R!Num
  <1>3. CASE R!gateOnTraffic
    <2>1. CASE \E v \in {"Error", "Inconclusive"} :
                 round' = [ask |-> "done", checks |-> [i \in DOMAIN metrics |-> v]]
      <3>1. PICK v \in {"Error", "Inconclusive"} :
                 round' = [ask |-> "done", checks |-> [i \in DOMAIN metrics |-> v]]
        BY <2>1, Zenon
      <3>2. [i \in DOMAIN metrics |-> v] \in Seq(Verdicts)
        <4>1. DOMAIN metrics = 1..Len(metrics) /\ Len(metrics) \in Nat
          BY <1>1, SeqShape, Zenon
        <4>2. v \in Verdicts
          BY DEF Verdicts
        <4>3. QED
          BY <4>1, <4>2
      <3>3. round' \in [ask : Asks, checks : Seq(Verdicts)] /\ round'.ask = "done"
        BY <3>1, <3>2 DEF Asks
      <3>4. QED
        <4>1. "done" \notin Later
          BY DEF Later
        <4>2. QED
          BY <1>2, <1>3, <3>3, <4>1, Zenon DEF R!gateOnTraffic
    <2>2. CASE /\ round' = [ask |-> R!First(<<>>), checks |-> round.checks]
               /\ floor > 0 => Past
      <3>1. round' \in [ask : Asks, checks : Seq(Verdicts)]
        BY <1>0, <2>2, FirstAsks
      <3>2. QED
        BY <1>2, <1>3, <2>2, <3>1, Zenon DEF R!gateOnTraffic
    <2>3. QED
      BY <1>3, <2>1, <2>2, GateMeans, Zenon DEF Past
  <1>4. CASE R!usageSamples
    <2>1. R!Asked /\ round.ask \in Later
      BY <1>4, Zenon DEF R!usageSamples, Later
    <2>2. round' \in [ask : Asks, checks : Seq(Verdicts)]
      <3>1. CASE \E v \in {"Error", "Inconclusive"} : R!Judge(v)
        <4>1. PICK v \in {"Error", "Inconclusive"} : R!Judge(v)
          BY <3>1, Zenon
        <4>2. v \in Verdicts
          BY DEF Verdicts
        <4>3. QED
          BY <4>1, <4>2, JudgeMeans, Zenon
      <3>2. CASE \E a \in {"usage of primary", "measure"} :
                   round' = [ask |-> a, checks |-> round.checks]
        <4>1. PICK a \in {"usage of primary", "measure"} :
                     round' = [ask |-> a, checks |-> round.checks]
          BY <3>2, Zenon
        <4>2. a \in Asks
          BY Zenon DEF Asks
        <4>3. round.checks \in Seq(Verdicts)
          BY <1>0, Zenon
        <4>4. QED
          BY <4>1, <4>2, <4>3, Zenon
      <3>3. QED
        BY <1>4, <3>1, <3>2, UsageMeans, Zenon
    <2>3. QED
      BY <1>1, <1>2, <2>1, <2>2, Zenon
  <1>5. CASE R!runOne
    <2>1. R!Asked /\ round.ask \in Later
      BY <1>5, Zenon DEF R!runOne, Later
    <2>2. PICK v \in Verdicts : R!Judge(v)
      BY <1>5, RunMeans, EvaluateGives, Zenon
    <2>3. round' \in [ask : Asks, checks : Seq(Verdicts)]
      BY <2>2, JudgeMeans, Zenon
    <2>4. QED
      BY <1>1, <1>2, <2>1, <2>3, Zenon
  <1>6. ASSUME NEW v \in Sides, R!Drain(v)
        PROVE  RoundInv'
    <2>1. /\ metrics' = metrics /\ floor' = floor /\ began' = began /\ round' = round
          /\ world' = [world EXCEPT ![v] = R!Quiet(@)]
      BY <1>6, Zenon DEF R!Drain
    <2>2. world[v] \in R!Series
      BY <1>1, Zenon
    <2>3. R!Quiet(world[v]) \in R!Series /\ R!Quiet(world[v]).requests \in {world[v].requests, 0}
      BY <2>2, QuietIsSeries, Zenon
    <2>4. /\ world' \in [Sides -> R!Series]
          /\ world'["canary"].requests \in {began["canary"].requests, 0}
      BY <1>1, <2>1, <2>3 DEF Sides
    <2>5. QED
      BY <1>1, <2>1, <2>4, Zenon DEF Past, Later, RoundInv, R!Served, R!Series, R!Metrics, R!DefaultMetrics,
         R!Builtins, R!Num
  <1>7. CASE UNCHANGED R!vars
    <2>1. R!Asked /\ round' = round
      BY <1>7, Zenon DEF R!vars, R!Asked
    <2>2. QED
      BY <1>1, <1>2, <2>1, Zenon
  <1>8. QED
    <2>1. "canary" \in Sides /\ "primary" \in Sides
      BY DEF Sides
    <2>2. QED
      BY <1>3, <1>4, <1>5, <1>6, <1>7, <2>1, Zenon DEF R!Next

(* A verdict that counts is on the metric that was measured.               *)
LEMMA OnlyMeasured ==
  ASSUME RoundInv, [R!Next]_R!vars, NEW i \in DOMAIN metrics, R!Judged(i),
         \/ round'.checks[i] \in {"Pass", "Fail"}
         \/ round.ask = "measure"
  PROVE  /\ R!runOne /\ i = Len(round.checks) + 1 /\ R!Metric = metrics[i]
         /\ \E sample \in IF metrics[i].query = "raw" THEN R!RawAnswers
                          ELSE R!Answers(R!Query(metrics[i])) :
              round'.checks[i] = R!Evaluate(metrics[i], sample)
  <1>1. /\ i \in Nat /\ Len(round.checks) \in Nat
        /\ Len(round.checks) < i /\ i <= Len(round'.checks)
    <2>1. /\ metrics \in Seq(R!Metrics \cup R!DefaultMetrics)
          /\ round.checks \in Seq(Verdicts)
      BY Zenon DEF RoundInv
    <2>2. i \in Nat /\ Len(round.checks) \in Nat
      BY <2>1
    <2>3. QED
      BY <2>2, Zenon DEF R!Judged
  <1>2. ASSUME NEW v \in Verdicts, R!Judge(v)
        PROVE  i = Len(round.checks) + 1 /\ round'.checks[i] = v
    <2>1. /\ Len(round'.checks) = Len(round.checks) + 1
          /\ round'.checks[Len(round.checks) + 1] = v
      BY <1>2, JudgeMeans, Zenon
    <2>2. i = Len(round.checks) + 1
      BY <1>1, <2>1
    <2>3. QED
      BY <2>1, <2>2, Zenon
  <1>3. round'.checks # round.checks
    BY <1>1
  <1>4. ASSUME R!gateOnTraffic PROVE FALSE
    <2>1. round.ask = "gate"
      BY <1>4, Zenon DEF R!gateOnTraffic
    <2>2. \A v \in {"Error", "Inconclusive"} : v \notin {"Pass", "Fail"}
      OBVIOUS
    <2>3. ASSUME NEW v \in {"Error", "Inconclusive"},
                 round' = [ask |-> "done", checks |-> [j \in DOMAIN metrics |-> v]]
          PROVE  round'.checks[i] = v
      BY <2>3
    <2>4. round' # [ask |-> R!First(<<>>), checks |-> round.checks]
      BY <1>3
    <2>5. round.ask # "measure"
      BY <2>1
    <2>6. QED
      BY <1>4, <2>2, <2>3, <2>4, <2>5, GateMeans, Zenon
  <1>5. ASSUME R!usageSamples PROVE FALSE
    <2>1. round.ask # "measure"
      BY <1>5, Zenon DEF R!usageSamples
    <2>2. \A v \in {"Error", "Inconclusive"} : v \in Verdicts /\ v \notin {"Pass", "Fail"}
      BY DEF Verdicts
    <2>3. \A a : round' # [ask |-> a, checks |-> round.checks]
      BY <1>3
    <2>4. QED
      BY <1>2, <1>5, <2>1, <2>2, <2>3, UsageMeans, Zenon
  <1>6. R!runOne
    <2>1. UNCHANGED R!vars \/ (\E v : R!Drain(v)) => round' = round
      BY Zenon DEF R!vars, R!Drain
    <2>2. QED
      BY <1>3, <1>4, <1>5, <2>1, Zenon DEF R!Next
  <1>7. PICK sample \in IF R!Metric.query = "raw" THEN R!RawAnswers
                        ELSE R!Answers(R!Query(R!Metric)) :
          R!Judge(R!Evaluate(R!Metric, sample))
    BY <1>6, RunMeans, Zenon
  <1>8. i = Len(round.checks) + 1 /\ round'.checks[i] = R!Evaluate(R!Metric, sample)
    BY <1>2, <1>7, EvaluateGives, Zenon
  <1>9. R!Metric = metrics[i]
    BY <1>8, Zenon DEF R!Metric
  <1>10. QED
    BY <1>6, <1>7, <1>8, <1>9, Zenon

(* A quantile of a variant without requests is no number.                  *)
LEMMA NoQuantile ==
  ASSUME NEW s \in R!Series, ~R!Served(s)
  PROVE  R!builtinQuery("quantile", s) \in {None, NaN}
  <1>1. s.latency \in {NaN, None}
    <2>1. /\ s.requests \in 0..MaxRate \cup {None}
          /\ s.requests = None => s.latency = None
          /\ s.requests = 0 => s.latency \in {NaN, None}
      BY DEF R!Series
    <2>2. s.requests = None \/ s.requests = 0
      BY <2>1, RoundAssumption DEF R!Served
    <2>3. QED
      BY <2>1, <2>2
  <1>2. QED
    BY <1>1 DEF R!builtinQuery, R!Whole

(* No check passes or fails on silence (analyzer.go, gateOnTraffic), in    *)
(* any round, however traffic ebbs between its queries.                    *)
THEOREM SilenceIsNeverEvidence == R!Spec => SilenceIsNoEvidence
  <1>1. RoundInv /\ [R!Next]_R!vars =>
          [\A i \in DOMAIN metrics :
             R!Judged(i) /\ round'.checks[i] \in {"Pass", "Fail"} =>
               /\ round.ask = "measure"
               /\ floor > 0 => R!Served(began["canary"]) /\ began["canary"].requests >= floor
               /\ metrics[i].query = "quantile" => R!Served(world["canary"])]_R!vars
    <2> SUFFICES ASSUME RoundInv, [R!Next]_R!vars, NEW i \in DOMAIN metrics,
                        R!Judged(i), round'.checks[i] \in {"Pass", "Fail"}
                 PROVE  /\ round.ask = "measure"
                        /\ floor > 0 => R!Served(began["canary"]) /\ began["canary"].requests >= floor
                        /\ metrics[i].query = "quantile" => R!Served(world["canary"])
      BY Zenon
    <2>1. R!runOne
      BY OnlyMeasured, Zenon
    <2>2. PICK sample \in IF metrics[i].query = "raw" THEN R!RawAnswers
                          ELSE R!Answers(R!Query(metrics[i])) :
            round'.checks[i] = R!Evaluate(metrics[i], sample)
      BY OnlyMeasured, Zenon
    <2>3. round.ask = "measure"
      BY <2>1, Zenon DEF R!runOne
    <2>4. floor > 0 => R!Served(began["canary"]) /\ began["canary"].requests >= floor
      BY <2>3 DEF RoundInv
    <2>5. ASSUME metrics[i].query = "quantile", ~R!Served(world["canary"])
          PROVE  FALSE
      <3>1. world["canary"] \in R!Series
        BY Zenon DEF RoundInv, Sides
      <3> DEFINE q == R!Query(metrics[i])
      <3>2. sample \in R!Answers(q)
        BY <2>2, <2>5
      <3>3. q \in {None, NaN}
        <4>1. R!builtinQuery("quantile", world["canary"]) \in {None, NaN}
          BY <2>5, <3>1, NoQuantile, Zenon
        <4>2. QED
          BY <2>5, <4>1 DEF R!Query, R!RatioQuery, R!Div
      <3> HIDE DEF q
      <3>4. sample.err \/ sample.count = 0 \/ sample.value = NaN
        BY <3>2, <3>3 DEF R!Answers
      <3>5. R!Evaluate(metrics[i], sample) \in {"Error", "Inconclusive"}
        BY <3>4 DEF R!Evaluate
      <3>6. QED
        BY <2>2, <3>5
    <2>6. QED
      BY <2>3, <2>4, <2>5, Zenon
  <1>2. QED
    BY <1>1, RoundInit, RoundStep, PTL DEF R!Spec, SilenceIsNoEvidence, R!SilenceIsNoEvidence

-----------------------------------------------------------------------------
(* Fractions of what was recorded.                                         *)
Fractions == [n : Nat, d : Nat \ {0}]

(* When a variant has recorded what a metric is about, the query of        *)
(* builtin.go returns it: the clamp and the absent series do not show.     *)
LEMMA QueryIsTruth ==
  ASSUME NEW s \in R!Series, NEW b \in R!Builtins, R!Recorded(b, s)
  PROVE  /\ R!builtinQuery(b, s) = R!Truth(b, s)
         /\ R!Truth(b, s) \in Fractions
         /\ R!Truth(b, s).d <= MaxRate \/ R!Truth(b, s).d = 1
  <1> DEFINE r == s.requests
             e == IF s.errors = None THEN 0 ELSE s.errors
  <1>1. /\ r \in Nat /\ r > 0 /\ r <= MaxRate /\ r # None
        /\ e \in Nat /\ e <= r /\ s.latency \in 1..2
        /\ s.usage \in Nat \cup {None}
    BY RoundAssumption DEF R!Series, R!Recorded, R!Served
  <1>2. \A x \in Nat : R!Whole(x) = [n |-> x, d |-> 1]
    BY RoundAssumption DEF R!Whole, R!Num
  <1>3. CASE b = "quantile"
    <2>1. s.latency \in Nat
      BY <1>1
    <2>2. R!builtinQuery(b, s) = R!Whole(s.latency) /\ R!Truth(b, s) = R!Num(s.latency, 1)
      BY <1>3 DEF R!builtinQuery, R!Truth
    <2>3. QED
      BY <1>2, <2>1, <2>2 DEF R!Num, Fractions
  <1>4. CASE b \in {"output-chunk-rate", "output-token-rate"}
    <2>1. s.usage \in Nat
      BY <1>1, <1>4 DEF R!Recorded
    <2>2. R!builtinQuery(b, s) = R!Whole(s.usage) /\ R!Truth(b, s) = R!Num(s.usage, 1)
      BY <1>4 DEF R!builtinQuery, R!Truth
    <2>3. QED
      BY <1>2, <2>1, <2>2 DEF R!Num, Fractions
  <1>5. R!errorRateQuery(s) = [n |-> e, d |-> r]
    <2>1. R!errorRateQuery(s) = R!Div(R!Whole(e), R!ClampMin(R!Whole(r)))
      BY <1>1 DEF R!errorRateQuery
    <2> HIDE DEF r, e
    <2>2. R!Whole(e) = [n |-> e, d |-> 1] /\ R!Whole(r) = [n |-> r, d |-> 1]
      BY <1>1, <1>2
    <2>3. R!ClampMin([n |-> r, d |-> 1]) = [n |-> r, d |-> 1]
      BY <1>1, RoundAssumption DEF R!ClampMin
    <2>4. R!Div([n |-> e, d |-> 1], [n |-> r, d |-> 1]) = [n |-> e, d |-> r]
      <3>1. /\ [n |-> e, d |-> 1] \notin {None, NaN} /\ [n |-> r, d |-> 1] \notin {None, NaN}
        BY <1>1, RoundAssumption
      <3>2. R!Div([n |-> e, d |-> 1], [n |-> r, d |-> 1]) = R!Num(e * 1, 1 * r)
        BY <3>1 DEF R!Div
      <3>3. e * 1 = e /\ 1 * r = r
        BY <1>1
      <3>4. QED
        BY <3>2, <3>3, Zenon DEF R!Num
    <2>5. QED
      BY <2>1, <2>2, <2>3, <2>4, Zenon
  <1>6. CASE b = "error-rate"
    <2>1. R!builtinQuery(b, s) = R!errorRateQuery(s) /\ R!Truth(b, s) = [n |-> e, d |-> r]
      BY <1>6 DEF R!builtinQuery, R!Truth, R!Num
    <2> HIDE DEF r, e
    <2>2. QED
      BY <1>1, <1>5, <2>1 DEF Fractions
  <1>7. CASE b = "success-rate"
    <2>1. [n |-> e, d |-> r] \notin {None, NaN}
      BY <1>1, RoundAssumption
    <2>2. /\ R!builtinQuery(b, s) = [n |-> r - e, d |-> r]
          /\ R!Truth(b, s) = [n |-> r - e, d |-> r]
      BY <1>5, <1>7, <2>1 DEF R!builtinQuery, R!Truth, R!Num
    <2> HIDE DEF r, e
    <2>3. r - e \in Nat
      BY <1>1
    <2>4. QED
      BY <1>1, <2>2, <2>3 DEF Fractions
  <1>8. QED
    BY <1>3, <1>4, <1>6, <1>7 DEF R!Builtins

(* A check on a number is decided by its bounds.                           *)
LEMMA NumberDecides ==
  ASSUME NEW m, NEW x \in [n : Int, d : Int],
         NEW sample \in R!Answers(x), R!Evaluate(m, sample) # "Error"
  PROVE  R!Evaluate(m, sample) =
           IF (m.min # None => ~R!Less(x, m.min)) /\ (m.max # None => ~R!Less(m.max, x))
           THEN "Pass" ELSE "Fail"
  <1>1. x \notin {None, NaN, Inf}
    BY RoundAssumption, Zenon
  <1>2. ~sample.err
    BY DEF R!Evaluate
  <1>3. sample.count = 1 /\ sample.value = x
    BY <1>1, <1>2 DEF R!Answers
  <1>4. QED
    BY <1>1, <1>2, <1>3 DEF R!Evaluate

(* The clamped ratio of two fractions compares with a bound as the canary  *)
(* with that bound times the primary.                                      *)
LEMMA RatioCompares ==
  ASSUME NEW c \in Fractions, NEW p \in Fractions, p.n > 0, NEW q \in Fractions
  PROVE  LET x == R!RatioQuery(c, p)
             y == R!Num(q.n * p.n, q.d * p.d)
         IN  /\ x \in [n : Int, d : Int]
             /\ R!Less(x, q) <=> R!Less(c, y)
             /\ R!Less(q, x) <=> R!Less(y, c)
  <1>1. /\ c.n \in Nat /\ c.d \in Nat /\ p.n \in Nat /\ p.d \in Nat /\ q.n \in Nat /\ q.d \in Nat
        /\ c \in [n : Int, d : Int] /\ p \in [n : Int, d : Int]
    BY DEF Fractions
  <1>2. R!RatioQuery(c, p) = [n |-> c.n * p.d, d |-> c.d * p.n]
    <2>1. R!ClampMin(p) = p
      BY <1>1, RoundAssumption DEF R!ClampMin
    <2>2. c \notin {None, NaN} /\ p \notin {None, NaN}
      BY <1>1, RoundAssumption, Zenon
    <2>3. QED
      BY <2>1, <2>2 DEF R!RatioQuery, R!Div, R!Num
  <1> DEFINE cn == c.n  cd == c.d  pn == p.n  pd == p.d  qn == q.n  qd == q.d
  <1>3. cn * pd \in Int /\ cd * pn \in Int
    BY <1>1
  <1>4. /\ (cn * pd) * qd = cn * (qd * pd)
        /\ qn * (cd * pn) = (qn * pn) * cd
    <2> HIDE DEF cn, cd, pn, pd, qn, qd
    <2>1. cn \in Int /\ cd \in Int /\ pn \in Int /\ pd \in Int /\ qn \in Int /\ qd \in Int
      BY <1>1 DEF cn, cd, pn, pd, qn, qd
    <2>2. QED
      BY <2>1
  <1>5. /\ R!RatioQuery(c, p).n = cn * pd /\ R!RatioQuery(c, p).d = cd * pn
        /\ R!RatioQuery(c, p) \in [n : Int, d : Int]
    BY <1>2, <1>3
  <1>6. R!Num(qn * pn, qd * pd).n = qn * pn /\ R!Num(qn * pn, qd * pd).d = qd * pd
    BY DEF R!Num
  <1>7. QED
    BY <1>4, <1>5, <1>6, Zenon DEF R!Less

(* Against a primary at zero the ratio exceeds the bound as soon as the    *)
(* canary is above zero.                                                   *)
LEMMA RatioToZero ==
  ASSUME NEW c \in Fractions, NEW p \in Fractions, p.n = 0, NEW q \in Fractions,
         q.n <= 2 * q.d, c.d <= MaxRate \/ c.d = 1
  PROVE  LET x == R!RatioQuery(c, p)
             y == R!Num(q.n * p.n, q.d * p.d)
         IN  /\ x \in [n : Int, d : Int]
             /\ R!Less(q, x) <=> R!Less(y, c)
  <1> DEFINE cn == c.n  cd == c.d  pd == p.d  qn == q.n  qd == q.d
  <1>1. /\ cn \in Nat /\ cd \in Nat \ {0} /\ pd \in Nat \ {0} /\ qn \in Nat /\ qd \in Nat \ {0}
        /\ c \in [n : Int, d : Int] /\ p \in [n : Int, d : Int]
    BY DEF Fractions
  <1>2. R!RatioQuery(c, p) = [n |-> cn * Floor, d |-> cd * 1]
    <2>1. R!ClampMin(p) = [n |-> 1, d |-> Floor]
      BY <1>1, RoundAssumption DEF R!ClampMin, R!Num
    <2>2. [n |-> 1, d |-> Floor] \notin {None, NaN} /\ c \notin {None, NaN}
      BY <1>1, RoundAssumption
    <2>3. QED
      BY <2>1, <2>2 DEF R!RatioQuery, R!Div, R!Num
  <1>3. /\ R!RatioQuery(c, p).n = cn * Floor /\ R!RatioQuery(c, p).d = cd * 1
        /\ R!RatioQuery(c, p) \in [n : Int, d : Int]
    BY <1>1, <1>2, RoundAssumption
  <1>4. R!Num(qn * 0, qd * pd).n = qn * 0 /\ R!Num(qn * 0, qd * pd).d = qd * pd
    BY DEF R!Num
  <1>5. qn <= 2 * qd /\ 2 * cd + 1 <= Floor
    BY <1>1, RoundAssumption
  <1>6. Floor \in Nat
    BY RoundAssumption, Zenon
  <1> HIDE DEF cn, cd, pd, qn, qd
  <1>7. (qn * (cd * 1) < (cn * Floor) * qd) <=> ((qn * 0) * cd < cn * (qd * pd))
    <2>1. CASE cn = 0
      BY <1>1, <1>6, <2>1
    <2>2. CASE cn # 0
      <3>1. (qn * 0) * cd = 0
        BY <1>1
      <3>2. cn * (qd * pd) > 0
        <4>1. qd * pd \in Nat /\ 1 * 1 <= qd * pd
          BY <1>1, ProductsGrow
        <4> DEFINE k == qd * pd
        <4> HIDE DEF k
        <4>2. 1 * 1 <= cn * k
          BY <1>1, <2>2, <4>1, ProductsGrow DEF k
        <4>3. QED
          BY <1>1, <4>1, <4>2 DEF k
      <3>3. qn * (cd * 1) < (cn * Floor) * qd
        <4>1. qn * cd <= (2 * qd) * cd
          BY <1>1, <1>5, ProductsGrow
        <4>2. qd * (2 * cd + 1) <= qd * Floor
          BY <1>1, <1>5, <1>6, ProductsGrow
        <4>3. 1 * (qd * Floor) <= cn * (qd * Floor)
          <5>1. qd * Floor \in Nat /\ 1 <= cn
            BY <1>1, <1>6, <2>2
          <5> DEFINE k == qd * Floor
          <5> HIDE DEF k
          <5>2. 1 * k <= cn * k
            BY <1>1, <5>1, ProductsGrow DEF k
          <5>3. QED
            BY <5>2, Zenon DEF k
        <4>4. /\ (2 * qd) * cd = 2 * (qd * cd)
              /\ qd * (2 * cd + 1) = 2 * (qd * cd) + qd
              /\ 1 * (qd * Floor) = qd * Floor
              /\ (cn * Floor) * qd = cn * (qd * Floor)
              /\ qn * (cd * 1) = qn * cd
          BY <1>1, <1>6
        <4>5. qd * cd \in Nat /\ qd * Floor \in Nat /\ cn * (qd * Floor) \in Nat /\ qn * cd \in Nat
          BY <1>1, <1>6
        <4> DEFINE u == qd * cd  v == qd * Floor  w == cn * (qd * Floor)  x == qn * cd
        <4> HIDE DEF u, v, w, x
        <4>6. x <= 2 * u /\ 2 * u + qd <= v /\ v <= w
          BY <4>1, <4>2, <4>3, <4>4, Zenon DEF u, v, w, x
        <4>7. x < w
          BY <1>1, <4>5, <4>6 DEF u, v, w, x
        <4>8. QED
          BY <4>4, <4>7, Zenon DEF w, x
      <3>4. QED
        BY <3>1, <3>2, <3>3
    <2>3. QED
      BY <2>1, <2>2
  <1>8. QED
    BY <1>3, <1>4, <1>7, Zenon DEF R!Less, cn, cd, pd, qn, qd

LEMMA MetricMeans ==
  ASSUME NEW m \in R!Metrics \cup R!DefaultMetrics, m.query # "raw"
  PROVE  /\ m.query \in R!Builtins
         /\ m.min # None => m.min \in Fractions
         /\ m.max # None => m.max \in Fractions /\ m.max.n <= 2 * m.max.d
  <1>1. m.min \in {None, R!Num(1, 1)} /\ m.max \in {None, R!Num(1, 2), R!Num(3, 2), R!Num(1, 20)}
    BY DEF R!Metrics, R!DefaultMetrics
  <1>2. m.query \in R!Builtins
    BY DEF R!Metrics, R!DefaultMetrics, R!Builtins
  <1>3. \A a \in {1, 3}, b \in {1, 2, 20} : R!Num(a, b) \in Fractions /\ R!Num(a, b).n = a /\ R!Num(a, b).d = b
    BY DEF R!Num, Fractions
  <1>4. m.max # None => m.max.n <= 2 * m.max.d
    <2>1. /\ R!Num(1, 2).n = 1 /\ R!Num(1, 2).d = 2 /\ R!Num(3, 2).n = 3 /\ R!Num(3, 2).d = 2
          /\ R!Num(1, 20).n = 1 /\ R!Num(1, 20).d = 20
      BY DEF R!Num
    <2>2. QED
      BY <1>1, <2>1
  <1>5. QED
    BY <1>1, <1>2, <1>3, <1>4

(* What both sides have recorded decides a built-in check (builtin.go,     *)
(* evaluate.go): no clamp, absent series or rounding of the question to a  *)
(* ratio can turn the verdict.                                             *)
THEOREM EvidenceAlwaysDecides == R!Spec => EvidenceDecides
  <1>1. RoundInv /\ [R!Next]_R!vars =>
          [\A i \in DOMAIN metrics :
             LET m == metrics[i]
                 c == R!Truth(m.query, world["canary"])
                 p == R!Truth(m.query, world["primary"])
             IN  ( /\ R!Judged(i) /\ round.ask = "measure" /\ m.query # "raw"
                   /\ R!Recorded(m.query, world["canary"])
                   /\ m.compare => /\ R!Recorded(m.query, world["primary"])
                                   /\ p.n > 0 \/ m.min = None
                   /\ round'.checks[i] # "Error" )
                 => round'.checks[i] = IF R!Within(m, c, p) THEN "Pass" ELSE "Fail"]_R!vars
    <2> SUFFICES ASSUME RoundInv, [R!Next]_R!vars, NEW i \in DOMAIN metrics,
                        R!Judged(i), round.ask = "measure", metrics[i].query # "raw",
                        R!Recorded(metrics[i].query, world["canary"]),
                        metrics[i].compare =>
                          /\ R!Recorded(metrics[i].query, world["primary"])
                          /\ \/ R!Truth(metrics[i].query, world["primary"]).n > 0
                             \/ metrics[i].min = None,
                        round'.checks[i] # "Error"
                 PROVE  round'.checks[i] =
                          IF R!Within(metrics[i], R!Truth(metrics[i].query, world["canary"]),
                                      R!Truth(metrics[i].query, world["primary"]))
                          THEN "Pass" ELSE "Fail"
      BY Zenon
    <2> DEFINE m == metrics[i]
               c == R!Truth(m.query, world["canary"])
               p == R!Truth(m.query, world["primary"])
               x == R!Query(m)
    <2>1. m \in R!Metrics \cup R!DefaultMetrics
      BY DEF RoundInv
    <2>2. /\ m.query \in R!Builtins
          /\ m.min # None => m.min \in Fractions
          /\ m.max # None => m.max \in Fractions /\ m.max.n <= 2 * m.max.d
      BY <2>1, MetricMeans, Zenon
    <2>3. world["canary"] \in R!Series /\ world["primary"] \in R!Series
      BY DEF RoundInv, Sides
    <2>4. PICK sample \in R!Answers(x) : round'.checks[i] = R!Evaluate(m, sample)
      BY OnlyMeasured, Zenon
    <2>5. /\ R!builtinQuery(m.query, world["canary"]) = c
          /\ c \in Fractions /\ (c.d <= MaxRate \/ c.d = 1)
      BY <2>2, <2>3, QueryIsTruth, Zenon
    <2>6. m.compare => /\ R!builtinQuery(m.query, world["primary"]) = p /\ p \in Fractions
                       /\ p.n > 0 \/ m.min = None
      BY <2>2, <2>3, QueryIsTruth, Zenon
    <2>7. x = IF m.compare THEN R!RatioQuery(c, p) ELSE c
      BY <2>5, <2>6, Zenon DEF R!Query
    <2> HIDE DEF m, c, p, x
    <2> DEFINE ok == (m.min # None => ~R!Less(x, m.min)) /\ (m.max # None => ~R!Less(m.max, x))
    <2>8. x \in [n : Int, d : Int] /\ (ok <=> R!Within(m, c, p))
      <3>1. CASE ~m.compare
        <4>1. x = c
          BY <2>7, <3>1, Zenon
        <4>2. c \in [n : Int, d : Int]
          BY <2>5 DEF Fractions
        <4>3. QED
          BY <3>1, <4>1, <4>2, Zenon DEF R!Within
      <3>2. CASE m.compare /\ p.n > 0
        <4>1. x = R!RatioQuery(c, p)
          BY <2>7, <3>2, Zenon
        <4>2. ASSUME NEW q \in Fractions
              PROVE  /\ x \in [n : Int, d : Int]
                     /\ R!Less(x, q) <=> R!Less(c, R!Num(q.n * p.n, q.d * p.d))
                     /\ R!Less(q, x) <=> R!Less(R!Num(q.n * p.n, q.d * p.d), c)
          BY <2>5, <2>6, <3>2, <4>1, RatioCompares, Zenon
        <4>3. x \in [n : Int, d : Int]
          BY <2>5, <4>2, Zenon
        <4>4. QED
          BY <2>2, <3>2, <4>2, <4>3, Zenon DEF R!Within
      <3>3. CASE m.compare /\ ~(p.n > 0)
        <4>1. x = R!RatioQuery(c, p) /\ m.min = None /\ p \in Fractions
          BY <2>6, <2>7, <3>3, Zenon
        <4>2. p.n = 0
          BY <3>3, <4>1 DEF Fractions
        <4>3. ASSUME NEW q \in Fractions, q.n <= 2 * q.d
              PROVE  /\ x \in [n : Int, d : Int]
                     /\ R!Less(q, x) <=> R!Less(R!Num(q.n * p.n, q.d * p.d), c)
          BY <2>5, <4>1, <4>2, <4>3, RatioToZero, Zenon
        <4>4. [n |-> 0, d |-> 1] \in Fractions /\ [n |-> 0, d |-> 1].n <= 2 * [n |-> 0, d |-> 1].d
          BY DEF Fractions
        <4>5. x \in [n : Int, d : Int]
          BY <4>3, <4>4, Zenon
        <4>6. QED
          BY <2>2, <3>3, <4>1, <4>3, <4>5, Zenon DEF R!Within
      <3>4. QED
        BY <3>1, <3>2, <3>3, Zenon
    <2>9. R!Evaluate(m, sample) = IF ok THEN "Pass" ELSE "Fail"
      BY <2>4, <2>8, NumberDecides, Zenon
    <2> HIDE DEF ok
    <2>10. round'.checks[i] = IF R!Within(m, c, p) THEN "Pass" ELSE "Fail"
      BY <2>4, <2>8, <2>9, Zenon
    <2>11. QED
      BY <2>10, Zenon DEF m, c, p
  <1>2. QED
    BY <1>1, RoundInit, RoundStep, PTL DEF R!Spec, EvidenceDecides, R!EvidenceDecides
=============================================================================
