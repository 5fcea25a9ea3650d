-------------------------------- MODULE SignalRules --------------------------------
(***************************************************************************)
(* The arithmetic of metric signals (metrics/processor.go, baseline.go,    *)
(* classify.go, types.go): the baseline of a window, its statistics and    *)
(* the verdict.                                                            *)
(*                                                                         *)
(* Times are steps of the alignment period and values are integers.  A     *)
(* ratio is a pair [n, d] with d > 0, compared by cross-multiplication, a  *)
(* deviation is compared by its square, and thresholds are per cent: the   *)
(* arithmetic is exact where the code rounds.  None is a bound that is not *)
(* configured.                                                             *)
(***************************************************************************)
EXTENDS Integers, FiniteSets, Sequences, FiniteSetsExt, Functions

CONSTANT None

MinPointsForSpikeDetection == 10
MinBaselinePoints == 7
MinCurrentWindowPoints == 3
WindowEdgeGapSteps == 3

-----------------------------------------------------------------------------
Total(values) == FoldFunction(+, 0, values)
SquareTotal(values) == FoldFunction(LAMBDA v, t : t + v * v, 0, values)
Abs(n) == IF n < 0 THEN -n ELSE n
R(n, d) == [n |-> n, d |-> d]
Less(a, b) == a.n * b.d < b.n * a.d
Mean(values) == R(Total(values), Len(values))

(* n squared times the variance of n values.                               *)
Spread(values) == Len(values) * SquareTotal(values) - Total(values) * Total(values)

(* The k-th smallest of some ratios; the middle one, or half way between   *)
(* the two in the middle.                                                  *)
Smallest(ratios, k) ==
    ratios[CHOOSE i \in DOMAIN ratios :
             /\ Cardinality({j \in DOMAIN ratios : Less(ratios[j], ratios[i])}) < k
             /\ Cardinality({j \in DOMAIN ratios : ~ Less(ratios[i], ratios[j])}) >= k]
Median(ratios) ==
    LET n == Cardinality(DOMAIN ratios)
        lower == Smallest(ratios, (n + 1) \div 2)  upper == Smallest(ratios, n \div 2 + 1)
    IN IF lower = upper THEN lower ELSE R(lower.n * upper.d + upper.n * lower.d, 2 * lower.d * upper.d)

(* The thresholds of a kind; a custom one that is not valid is not used.   *)
T(delta, breach, cv, z2) == [delta |-> delta, breach |-> breach, cv |-> cv, spike |-> z2]
DefaultThresholdsFor(kind) ==
    CASE kind = "error_rate" -> T(5, 20, 50, R(25, 4))
      [] kind = "throughput" -> T(15, 30, 25, R(9, 1))
      [] kind = "saturation" -> T(5, 50, 15, R(9, 1))
      [] kind = "resource_utilization" -> T(10, 40, 20, R(9, 1))
      [] kind = "availability" -> T(5, 20, 30, R(9, 1))
      [] kind = "freshness" -> T(15, 20, 50, R(9, 1))
      [] OTHER -> T(10, 30, 30, R(9, 1))
ValidThresholds(t) == t.delta > 0 /\ t.breach \in 0..100 /\ t.cv > 0 /\ t.spike.n > 0
EffectiveThresholds(meta) ==
    IF meta.thresholds # None /\ ValidThresholds(meta.thresholds)
    THEN meta.thresholds ELSE DefaultThresholdsFor(meta.kind)

-----------------------------------------------------------------------------
(* ComputeRobustBaselineStats: the median of the means of the buckets with *)
(* points, counting all points of all buckets.                             *)
PointsIn(buckets) == UNION {{i} \X DOMAIN buckets[i] : i \in DOMAIN buckets}
BaselineStats(buckets, perBucket) ==
    LET nonEmpty == {i \in DOMAIN buckets : buckets[i] # <<>>}
        count == Cardinality(PointsIn(buckets))
    IN [count |-> count,
        mean |-> IF nonEmpty = {} THEN R(0, 1) ELSE Median([i \in nonEmpty |-> Mean(buckets[i])]),
        reliable |-> count >= MinBaselinePoints /\ count >= (perBucket * Len(buckets)) \div 2]

(* Deviation from the baseline in per cent of it, or of the mean when the  *)
(* baseline is zero.                                                       *)
DeltaPct(mean, baseline) ==
    LET delta == mean.n * baseline.mean.d - baseline.mean.n * mean.d
        base == IF baseline.mean.n # 0 THEN Abs(baseline.mean.n) * mean.d ELSE Abs(mean.n) * baseline.mean.d
    IN IF baseline.count = 0 \/ base = 0 THEN R(0, 1) ELSE R(delta * 100, base)

(* Drift over the window by linear regression, as a share of the baseline, *)
(* or of the mean when the baseline is zero.                               *)
TrendScore(points, mean, baseline) ==
    LET n == Len(points)
        x == [i \in 1..n |-> points[i].at - points[1].at]
        y == [i \in 1..n |-> points[i].value]
        xy == Total([i \in 1..n |-> x[i] * y[i]])
        slope == n * xy - Total(x) * Total(y)
        norm == IF baseline.count > 0 /\ baseline.mean.n # 0 THEN baseline.mean ELSE mean
        d == Spread(x) * Abs(norm.n)
    IN IF n < 3 \/ d = 0 THEN R(0, 1) ELSE R(slope * x[n] * norm.d, d)

(* The last third of the window against the first, and where the values    *)
(* between them cross the middle.                                          *)
StepChange(points, significant) ==
    LET n == Len(points)
        third == n \div 3
        first == Total([i \in 1..third |-> points[i].value])
        last == Total([i \in 1..third |-> points[n - third + i].value])
        base == IF first # 0 THEN Abs(first) ELSE Abs(last)
        crossed == {i \in (third + 1)..(n - third) :
                      LET v == 2 * third * points[i].value
                      IN \/ last > first /\ v >= first + last
                         \/ last < first /\ v <= first + last}
        detected == n >= 6 /\ base # 0 /\ Abs(last - first) * 100 > 2 * significant * base
    IN [detected |-> detected,
        at |-> IF detected /\ crossed # {} THEN points[Min(crossed)].at ELSE None]

(* Values as far from the mean as the threshold, once there are enough     *)
(* points for any to be.                                                   *)
Spikes(values, z2) ==
    IF Len(values) < MinPointsForSpikeDetection \/ Spread(values) = 0 THEN 0
    ELSE Cardinality({i \in DOMAIN values :
           LET deviation == Len(values) * values[i] - Total(values)
           IN deviation * deviation * z2.d >= z2.n * Spread(values)})

(* Variant: an objective is breached from above, whichever way is better.  *)
IsBreach_Above(value, threshold, direction) == value > threshold

IsBreach(value, threshold, direction) ==
    IF direction = "up" THEN value < threshold ELSE value > threshold

SLOBreach(values, meta) ==
    LET breached == {i \in DOMAIN values : meta.slo # None /\ IsBreach(values[i], meta.slo, meta.direction)}
    IN [count |-> Cardinality(breached),
        streak |-> Len(values) - Max({0} \union (DOMAIN values \ breached)),
        transitions |-> Cardinality({i \in 2..Len(values) : (i \in breached) # (i - 1 \in breached)})]

Saturated(values, cap) ==
    LET tail == IF Len(values) < 20 THEN 1 ELSE Len(values) \div 10
    IN cap # None /\ 100 * Total(SubSeq(values, Len(values) - tail + 1, Len(values))) >= 95 * cap * tail

(* Points missing: from the window, unless it is unknown or malformed, and *)
(* between the points.                                                     *)
DataQuality(points, window) ==
    LET n == Len(points)
        known == window # None /\ window.end > window.start
        span == IF known THEN window ELSE [start |-> points[1].at, end |-> points[n].at]
        gaps == {i \in 2..n : points[i].at - points[i - 1].at > 2}
                \union {i \in {1} : known /\ points[1].at - window.start > WindowEdgeGapSteps}
                \union {i \in {n + 1} : known /\ window.end - points[n].at > WindowEdgeGapSteps}
    IN [reliable |-> n >= MinCurrentWindowPoints /\ n >= (span.end - span.start + 1) \div 2
                     /\ Cardinality(gaps) <= 3]

-----------------------------------------------------------------------------
IsDegrading(delta, direction) ==
    \/ direction = "down" /\ delta.n > 0
    \/ direction = "up" /\ delta.n < 0

(* The decision tree.  pct(k) compares with k per cent of the points, and  *)
(* drift(s, k) asks for a trend to the side s of more than k per cent.     *)
ClassifyCore(f, meta, thr) ==
    LET n == f.points
        significant == Abs(f.delta.n) >= thr.delta * f.delta.d
        cv2 == f.total * f.total
        cvAbove(c) == f.spread * 10000 > c * c * cv2
        cvBelow(c) == f.spread * 10000 < c * c * cv2
        breachAbove(k) == f.slo.count * 100 > k * n
        breachBelow(k) == f.slo.count * 100 < k * n
        drift(s, k) == s * f.trend.n * 100 > k * f.trend.d
        degrading == IsDegrading(f.delta, meta.direction)
    IN IF f.saturated THEN "saturation"
       ELSE IF f.spikes > 0 /\ f.spikes * 100 < 15 * n /\ Abs(f.delta.n) < 20 * f.delta.d
       THEN "spike"
       ELSE IF /\ meta.slo # None /\ n >= 10
               /\ f.slo.transitions * 100 >= 15 * n
               /\ ~ breachBelow(15) /\ ~ breachAbove(85)
       THEN "flapping"
       ELSE IF ~ significant THEN IF cvAbove(thr.cv) THEN "noisy" ELSE "stable"
       ELSE IF /\ meta.slo # None /\ breachBelow(20)
               /\ \/ f.delta.n > 0 /\ drift(-1, 2)
                  \/ f.delta.n < 0 /\ drift(1, 2)
       THEN "recovery"
       ELSE IF f.step.detected /\ cvBelow(35) /\ breachAbove(thr.breach) THEN "step_regression"
       ELSE IF degrading /\ breachAbove(thr.breach) /\ (drift(1, 5) \/ drift(-1, 5))
       THEN "sustained_regression"
       ELSE IF /\ ~ degrading /\ breachBelow(20)
               /\ \/ meta.direction = "down" /\ drift(-1, 5)
                  \/ meta.direction = "up" /\ drift(1, 5)
       THEN "improvement"
       ELSE IF cvAbove(40) THEN "noisy"
       ELSE IF degrading THEN "step_regression" ELSE "stable"

DeltaBased == {"spike", "step_regression", "sustained_regression", "recovery", "improvement"}

(* A verdict the data does not carry is taken back.                        *)
(* Variant: the baseline is trusted however thin it is.                    *)
Downgrade_AnyBaseline(class, f) ==
    IF ~ f.quality.reliable /\ class \in DeltaBased \union {"flapping"} THEN "insufficient_data" ELSE class

Downgrade(class, f) ==
    IF \/ ~ f.quality.reliable /\ class \in DeltaBased \union {"flapping"}
       \/ ~ f.baseline.reliable /\ class \in DeltaBased
    THEN "insufficient_data" ELSE class

DeriveConfidence(f) ==
    IF f.baseline.count = 0 THEN "low"
    ELSE IF f.quality.reliable /\ f.baseline.reliable THEN "high"
    ELSE IF f.quality.reliable \/ f.baseline.reliable THEN "medium" ELSE "low"

(* ProcessWithBaselineStats of at least one point, in any order.  A series *)
(* has one point a step: equal times, which sort.Slice may put in either   *)
(* order, do not arise.                                                    *)
Place(points, i) ==
    Cardinality({j \in DOMAIN points :
      points[j].at < points[i].at \/ (points[j].at = points[i].at /\ j <= i)})
InOrder(points) ==
    LET place == [i \in DOMAIN points |-> Place(points, i)]
    IN [k \in DOMAIN points |-> points[CHOOSE i \in DOMAIN points : place[i] = k]]
Features(given, baseline, meta, window) ==
    LET points == InOrder(given)
        values == [i \in DOMAIN points |-> points[i].value]
        thr == EffectiveThresholds(meta)
    IN [points |-> Len(points), total |-> Total(values), spread |-> Spread(values),
        baseline |-> baseline, delta |-> DeltaPct(Mean(values), baseline),
        trend |-> TrendScore(points, Mean(values), baseline), step |-> StepChange(points, thr.delta),
        spikes |-> Spikes(values, thr.spike), slo |-> SLOBreach(values, meta),
        saturated |-> Saturated(values, meta.cap), quality |-> DataQuality(points, window)]

Process(points, baseline, meta, window) ==
    IF points = <<>> THEN [class |-> "insufficient_data", confidence |-> "low"]
    ELSE LET f == Features(points, baseline, meta, window)
         IN [class |-> Downgrade(ClassifyCore(f, meta, EffectiveThresholds(meta)), f),
             confidence |-> DeriveConfidence(f)]

Severity(class) ==
    CASE class = "improvement" -> -1
      [] class \in {"stable", "insufficient_data"} -> 0
      [] class = "noisy" -> 1
      [] class = "recovery" -> 2
      [] class = "spike" -> 3
      [] class = "flapping" -> 4
      [] class = "step_regression" -> 5
      [] class = "sustained_regression" -> 6
      [] class = "saturation" -> 7
===============================================================================
