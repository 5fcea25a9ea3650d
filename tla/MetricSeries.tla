------------------------------- MODULE MetricSeries -------------------------------
(***************************************************************************)
(* Querying a metric's time series and aggregating them                    *)
(* (gcpdata/metrics.go, metrics/aggregation.go, metrics/types.go): the     *)
(* series are read one by one, each point decoded or counted as dropped,   *)
(* and for a two-stage aggregation the series of the groups are folded     *)
(* bucket by bucket, a silent group carried forward for a while.           *)
(*                                                                         *)
(* A time is a bucket number.  A series of the API is its points, newest   *)
(* first: [at, type, value] with type "number", "other" (a value the tool  *)
(* does not decode, or a distribution without samples), "nonfinite", or    *)
(* "void" (no interval or value).                                          *)
(***************************************************************************)
EXTENDS Integers, FiniteSets, Sequences, FiniteSetsExt, Functions

CONSTANTS
    SeriesInputs,            \* answers of the API: sequences of series
    Specs,                   \* aggregations asked for
    MaxTimeSeries,           \* series kept of one answer
    MaxCarryForwardBuckets,  \* buckets a silent group is carried forward
    MaxFinite                \* above it a sum is not finite

VARIABLES input, call, answer
vars == <<input, call, answer>>

(* An answer of the API: a metric and sequences of points.                 *)
SeriesConstants ==
    /\ MaxTimeSeries \in Nat \ {0} /\ MaxCarryForwardBuckets \in Nat
    /\ \A a \in SeriesInputs :
         /\ a.metric.kind \in {"GAUGE", "DELTA", "CUMULATIVE"}
         /\ a.series \in Seq(Seq([at : Int, type : STRING, value : Int]))

-----------------------------------------------------------------------------
Reducers == {"mean", "sum", "max", "min"}
Kinds == {"latency", "throughput", "error_rate", "resource_utilization", "saturation",
          "availability", "business_kpi", "freshness", "unknown"}

DefaultAggregation(kind) ==
    [groupBy |-> <<>>, within |-> "",
     across |-> CASE kind \in {"business_kpi", "throughput", "error_rate"} -> "sum"
                  [] kind \in {"freshness", "saturation"} -> "max"
                  [] OTHER -> "mean"]

(* A key to group by is "qualified", "bare" (it has no namespace) or "".   *)
Valid(spec) ==
    /\ spec.across \in Reducers
    /\ IF spec.groupBy = <<>> THEN spec.within = ""
       ELSE spec.within \in Reducers /\ Range(spec.groupBy) \subseteq {"qualified"}

IsTwoStage(spec) == spec.groupBy # <<>>

(* What asks for the series: aligner, keys to group by and reducer.        *)
SelectAligner(metricKind, valueType) ==
    IF metricKind \notin {"DELTA", "CUMULATIVE"} THEN "ALIGN_MEAN"
    ELSE IF valueType = "DISTRIBUTION" THEN "ALIGN_DELTA" ELSE "ALIGN_RATE"

BuildAggregatedParams(metric, spec) ==
    [aligner |-> SelectAligner(metric.kind, metric.valueType), groupBy |-> spec.groupBy,
     reducer |-> IF IsTwoStage(spec) THEN spec.within ELSE spec.across]

-----------------------------------------------------------------------------
NoWarnings ==
    [unsupported |-> 0, nonFinite |-> 0, singleGroup |-> FALSE, carryForward |-> 0,
     departedBuckets |-> 0, departedSeries |-> 0, totalBuckets |-> 0, groupCount |-> 0,
     truncated |-> FALSE]

Count(points, type) == Cardinality({i \in DOMAIN points : points[i].type = type})

(* A value is a sum and the number of values in it, so that a mean is      *)
(* exact; the reducers other than the mean have one value.                 *)
Total(values) == MapThenSumSet(LAMBDA i : values[i], DOMAIN values)
ApplyReducer(values, reducer) ==
    CASE reducer = "sum"  -> <<Total(values), 1>>
      [] reducer = "max"  -> <<Max(Range(values)), 1>>
      [] reducer = "min"  -> <<Min(Range(values)), 1>>
      [] reducer = "mean" -> <<Total(values), Cardinality(DOMAIN values)>>
Finite(value) == value[1] <= MaxFinite /\ value[1] >= -MaxFinite

Idle == [pc |-> "idle"]
NoAnswer == [kind |-> "none"]

Init ==
    /\ input \in SeriesInputs
    /\ call = Idle
    /\ answer = NoAnswer

-----------------------------------------------------------------------------
(* QueryTimeSeriesAggregated refuses a specification that is not valid.    *)
Ask ==
    /\ call.pc = "idle" /\ answer = NoAnswer
    /\ \E spec \in Specs :
         IF Valid(spec)
         THEN /\ call' = [pc |-> "read", spec |-> spec, request |-> BuildAggregatedParams(input.metric, spec),
                          series |-> <<>>, read |-> 0, warnings |-> NoWarnings]
              /\ UNCHANGED answer
         ELSE /\ answer' = [kind |-> "invalid", spec |-> spec]
              /\ UNCHANGED call
    /\ UNCHANGED input

(* QueryTimeSeries: the next series, with the points that decode.          *)
ReadSeries ==
    /\ call.pc = "read" /\ call.read < Len(input.series)
    /\ LET points == input.series[call.read + 1]
           decoded == {points[k] : k \in {k \in DOMAIN points : points[k].type = "number"}}
       IN IF Len(call.series) = MaxTimeSeries
          THEN call' = [call EXCEPT !.read = Len(input.series), !.warnings.truncated = TRUE]
          ELSE call' = [call EXCEPT
                 !.read = @ + 1,
                 !.series = Append(@, [at \in {p.at : p \in decoded} |-> (CHOOSE p \in decoded : p.at = at).value]),
                 !.warnings.unsupported = @ + Count(points, "other"),
                 !.warnings.nonFinite = @ + Count(points, "nonfinite")]
    /\ UNCHANGED <<input, answer>>

(* The API fails at a series.                                              *)
ReadFails ==
    /\ call.pc = "read"
    /\ answer' = [kind |-> "error"]
    /\ call' = Idle
    /\ UNCHANGED input

Reply(result) ==
    /\ answer' = [kind |-> "series", result |-> result, spec |-> call.spec,
                  request |-> call.request, warnings |-> call'.warnings]

(* One stage: the API has reduced the series already.                      *)
SingleStage ==
    /\ call.pc = "read" /\ call.read = Len(input.series) /\ ~ IsTwoStage(call.spec)
    /\ call' = [pc |-> "done", series |-> call.series, warnings |-> call.warnings]
    /\ Reply(call.series)
    /\ UNCHANGED input

(* Two stages: foldGroupSeries starts with the buckets of all series, and  *)
(* with no bucket it leaves the warnings as they are.                      *)
StartFold ==
    /\ call.pc = "read" /\ call.read = Len(input.series) /\ IsTwoStage(call.spec)
    /\ LET groups == Len(call.series)
           buckets == UNION {DOMAIN call.series[i] : i \in DOMAIN call.series}
       IN call' = [pc |-> "fold", spec |-> call.spec, request |-> call.request, series |-> call.series,
                   warnings |-> [call.warnings EXCEPT !.groupCount = groups, !.singleGroup = (groups = 1)],
                   left |-> buckets, points |-> <<>>,
                   carried |-> [i \in {} |-> 0], streak |-> [i \in 1..groups |-> 0], departed |-> {}]
    /\ UNCHANGED <<input, answer>>

(* How many buckets in a row each group has been carried forward.          *)
(* Variant: a fresh point does not end the streak.                         *)
Streaks_Kept(streak, fresh, present) ==
    [i \in DOMAIN streak |-> IF i \in present \ fresh THEN streak[i] + 1 ELSE streak[i]]

Streaks(streak, fresh, present) ==
    [i \in DOMAIN streak |-> CASE i \in fresh -> 0
                               [] i \in present \ fresh -> streak[i] + 1
                               [] OTHER -> streak[i]]

(* The next bucket: the groups with a point in it, those carried forward, and     *)
(* those whose carries have run out.                                       *)
FoldBucket ==
    /\ call.pc = "fold"
    /\ \E at \in call.left :
         /\ \A b \in call.left : at <= b
         /\ LET fresh == {i \in DOMAIN call.series : at \in DOMAIN call.series[i]}
                silent == DOMAIN call.carried \ fresh
                gone == {i \in silent : call.streak[i] >= MaxCarryForwardBuckets}
                present == fresh \union (silent \ gone)
                carried == [i \in DOMAIN call.carried \union fresh |->
                              IF i \in fresh THEN call.series[i][at] ELSE call.carried[i]]
                value == ApplyReducer([i \in present |-> carried[i]], call.spec.across)
                kept == present # {} /\ Finite(value)
                count(n, counted) == IF counted THEN n + 1 ELSE n
            IN call' = [call EXCEPT
                 !.left = @ \ {at}, !.carried = carried,
                 !.streak = Streaks(@, fresh, present),
                 !.departed = @ \union gone,
                 !.points = IF kept THEN Append(@, [at |-> at, value |-> value]) ELSE @,
                 !.warnings.departedSeries = Cardinality(call.departed \union gone),
                 !.warnings.nonFinite = count(@, present # {} /\ ~ kept),
                 !.warnings.departedBuckets = count(@, kept /\ gone # {}),
                 !.warnings.carryForward = count(@, kept /\ gone = {} /\ silent # {})]
    /\ UNCHANGED <<input, answer>>

FinishFold ==
    /\ call.pc = "fold" /\ call.left = {}
    /\ call' = [pc |-> "done", series |-> call.series,
                warnings |-> [call.warnings EXCEPT !.totalBuckets = Len(call.points)]]
    /\ Reply(call.points)
    /\ UNCHANGED input

Again ==
    /\ answer # NoAnswer
    /\ answer' = NoAnswer /\ call' = Idle
    /\ UNCHANGED input

Next == Ask \/ ReadSeries \/ ReadFails \/ SingleStage \/ StartFold \/ FoldBucket \/ FinishFold \/ Again

Spec == Init /\ [][Next]_vars

-----------------------------------------------------------------------------
(* The points of the series kept, in the order of the API.                 *)
Kept == SubSeq(input.series, 1, Min({MaxTimeSeries, Len(input.series)}))
Dropped(type) ==
    Cardinality(UNION {{<<i, k>> : k \in {k \in DOMAIN Kept[i] : Kept[i][k].type = type}} : i \in DOMAIN Kept})
Numbers(i) == {Kept[i][k] : k \in {k \in DOMAIN Kept[i] : Kept[i][k].type = "number"}}
NumberAt(i, at) == \E p \in Numbers(i) : p.at = at
ValueAt(i, at) == (CHOOSE p \in Numbers(i) : p.at = at).value

(* What the fold should be, said of the whole input: a group counts at a   *)
(* bucket with its last point, unless more than MaxCarryForwardBuckets of  *)
(* the buckets there are have passed since.                                *)
Observed == UNION {{p.at : p \in Numbers(i)} : i \in DOMAIN Kept}
Since(i, at) == {b \in Observed : b <= at /\ NumberAt(i, b)}
Silence(i, at) == Cardinality({b \in Observed : Max(Since(i, at)) < b /\ b <= at})
Started(at) == {i \in DOMAIN Kept : Since(i, at) # {}}
Departed(at) == {i \in Started(at) : Silence(i, at) > MaxCarryForwardBuckets}
Carried(at) == {i \in Started(at) \ Departed(at) : Silence(i, at) > 0}
Folded(at, across) ==
    LET last == [i \in Started(at) \ Departed(at) |-> ValueAt(i, Max(Since(i, at)))]
    IN CASE across = "sum" -> <<Total(last), 1>>
         [] across = "mean" -> <<Total(last), Cardinality(DOMAIN last)>>
         [] across = "max" -> <<Max(Range(last)), 1>>
         [] across = "min" -> <<Min(Range(last)), 1>>
Empty(at) == Started(at) \ Departed(at) = {}
Good(at, across) == ~ Empty(at) /\ Finite(Folded(at, across))

(* The folded series is what the last points of the groups that still      *)
(* count say, bucket by bucket in the order of time, whatever gaps,        *)
(* departures and returns the groups have; and each warning counts what    *)
(* it says it counts, the dropped points and buckets among them, so that   *)
(* nothing is left out in silence (metrics.go:249-344, 441-491, 543-648).  *)
SeriesExact ==
    answer.kind = "series" =>
      LET w == answer.warnings
          across == answer.spec.across
          good == {at \in Observed : Good(at, across)}
          overflown == {at \in Observed : ~ Empty(at) /\ ~ Good(at, across)}
      IN /\ w.truncated = (Len(input.series) > MaxTimeSeries)
         /\ w.unsupported = Dropped("other")
         /\ IF answer.request.groupBy = <<>>
            THEN /\ w.nonFinite = Dropped("nonfinite")
                 /\ Len(answer.result) = Len(Kept)
                 /\ \A i \in DOMAIN Kept :
                      answer.result[i] = [at \in {p.at : p \in Numbers(i)} |-> ValueAt(i, at)]
            ELSE /\ {answer.result[k] : k \in DOMAIN answer.result}
                      = {[at |-> at, value |-> Folded(at, across)] : at \in good}
                 /\ \A j, k \in DOMAIN answer.result : j < k => answer.result[j].at < answer.result[k].at
                 /\ w.nonFinite = Dropped("nonfinite") + Cardinality(overflown)
                 /\ w.departedBuckets = Cardinality({at \in good : Departed(at) # {}})
                 /\ w.carryForward = Cardinality({at \in good : Departed(at) = {} /\ Carried(at) # {}})
                 /\ w.departedSeries = Cardinality(UNION {Departed(at) : at \in Observed})
                 /\ w.totalBuckets = Cardinality(good) /\ w.groupCount = Len(Kept)
                 /\ w.singleGroup = (Len(Kept) = 1)
===============================================================================
