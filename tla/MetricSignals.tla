------------------------------- MODULE MetricSignals -------------------------------
(***************************************************************************)
(* What the metric tools say about a window of points they have fetched:   *)
(* the verdict on it against its baseline, and the comparison of two       *)
(* windows (metrics/processor.go, classify.go; tools/metrics_compare.go).  *)
(***************************************************************************)
EXTENDS SignalRules

CONSTANT SignalInputs   \* [points, window, buckets, perBucket, meta]: what a tool has fetched

VARIABLES input, call, answer
vars == <<input, call, answer>>

(* Points have times, windows two; a baseline is made of sequences.        *)
SignalConstants ==
    \A s \in SignalInputs :
      /\ s.points \in Seq(Range(s.points)) /\ \A i \in DOMAIN s.points : s.points[i].at \in Int
      /\ s.window # None => s.window.start \in Int /\ s.window.end \in Int
      /\ s.buckets \in Seq(Range(s.buckets)) /\ s.perBucket \in Nat
      /\ \A i \in DOMAIN s.buckets : IsFiniteSet(DOMAIN s.buckets[i])

-----------------------------------------------------------------------------
NoAnswer == [tool |-> "none"]

Init ==
    /\ input \in SignalInputs
    /\ call = "ask"
    /\ answer = NoAnswer

Reply(tool, result) ==
    /\ call = "ask"
    /\ answer' = [tool |-> tool, result |-> result]
    /\ call' = "answered"
    /\ UNCHANGED input

(* metrics_snapshot, and each contributor or related metric.               *)
Judge ==
    Reply("judge", Process(input.points, BaselineStats(input.buckets, input.perBucket), input.meta, input.window))

(* metrics_compare: the window against another one, which has no baseline  *)
(* of its own.  The other window is the first bucket, in its own time.     *)
Compare ==
    /\ input.points # <<>> /\ input.buckets # <<>> /\ input.buckets[1] # <<>>
    /\ LET other == [i \in DOMAIN input.buckets[1] |-> [at |-> i, value |-> input.buckets[1][i]]]
           a == Process(other, BaselineStats(<<>>, 0), input.meta, [start |-> 0, end |-> input.perBucket - 1])
           b == Process(input.points, BaselineStats(<<input.buckets[1]>>, input.perBucket), input.meta, input.window)
       IN Reply("compare", [a |-> a, b |-> b,
            shift |-> CASE Severity(b.class) > Severity(a.class) -> "degraded"
                        [] Severity(b.class) < Severity(a.class) -> "improved"
                        [] OTHER -> "unchanged"])

Again ==
    /\ call = "answered"
    /\ call' = "ask" /\ answer' = NoAnswer
    /\ UNCHANGED input

Next == Judge \/ Compare \/ Again

Spec == Init /\ [][Next]_vars

-----------------------------------------------------------------------------
Class == IF answer.tool = "judge" THEN answer.result.class ELSE answer.result.b.class
Base == IF answer.tool = "judge" THEN BaselineStats(input.buckets, input.perBucket)
        ELSE BaselineStats(<<input.buckets[1]>>, input.perBucket)
F == Features(input.points, Base, input.meta, input.window)

(* A verdict by comparison rests on a window at most half of whose steps   *)
(* are missing, with not all of them at its ends, and on a baseline as     *)
(* full; with high confidence so does every verdict.                       *)
Full(count, expected) == 2 * count >= expected - 1
Supported ==
    Class \in DeltaBased \/ (answer.tool = "judge" /\ answer.result.confidence = "high") =>
      LET times == {p.at : p \in Range(input.points)}  window == input.window
      IN /\ Full(Len(input.points), IF window = None \/ window.end <= window.start
                                    THEN Max(times) - Min(times) + 1 ELSE window.end - window.start + 1)
         /\ answer.tool = "judge" => Full(Base.count, input.perBucket * Len(input.buckets))
         /\ Len(input.points) >= MinCurrentWindowPoints /\ Base.count >= MinBaselinePoints

(* A metric that has become significantly worse is never called healthy,   *)
(* and one that mostly breaches its objective never improved.  Where the   *)
(* data cannot carry the verdict, the answer is insufficient_data, as      *)
(* applyReliabilityDowngrade has it (classify.go:228-252), and neither     *)
(* noisy nor stable, as the comment of Classify says (113-119).            *)
NeverHealthy ==
    LET f == F
        significant == Abs(f.delta.n) >= EffectiveThresholds(input.meta).delta * f.delta.d
    IN /\ IsDegrading(f.delta, input.meta.direction) /\ significant => Class \notin {"stable", "improvement"}
       /\ 2 * f.slo.count > f.points => Class \notin {"recovery", "improvement"}

(* Turned upside down, a metric gets the same verdict.                     *)
Negated(values) == [i \in DOMAIN values |-> -values[i]]
DirectionsMirror ==
    input.meta.direction \in {"up", "down"} /\ input.meta.cap = None =>
      LET meta == [input.meta EXCEPT
                     !.direction = IF @ = "up" THEN "down" ELSE "up",
                     !.slo = IF @ = None THEN None ELSE -@]
          points == [i \in DOMAIN input.points |-> [input.points[i] EXCEPT !.value = -@]]
          buckets == [i \in DOMAIN input.buckets |-> Negated(input.buckets[i])]
      IN Process(points, BaselineStats(buckets, input.perBucket), meta, input.window)
         = Process(input.points, BaselineStats(input.buckets, input.perBucket), input.meta, input.window)

(* One odd week of three or more does not move the baseline out of what    *)
(* the others say.                                                         *)
OutlierWithout(buckets) ==
    LET weeks == {i \in DOMAIN buckets : buckets[i] # <<>>}
    IN Cardinality(weeks) >= 3 =>
         \A odd \in weeks :
           /\ \E i \in weeks \ {odd} : ~ Less(BaselineStats(buckets, 0).mean, Mean(buckets[i]))
           /\ \E i \in weeks \ {odd} : ~ Less(Mean(buckets[i]), BaselineStats(buckets, 0).mean)

(* A verdict is one the data carries, and none that hides what is worse    *)
(* (classify.go:134-255, processor.go:352-432).                            *)
VerdictsSound ==
    answer # NoAnswer /\ input.points # <<>> => Supported /\ NeverHealthy

(* It is the same whichever way is better, and against a baseline one odd  *)
(* week does not move (classify.go:257-272, baseline.go:40-98).            *)
VerdictsUnbiased ==
    answer # NoAnswer /\ input.points # <<>> => DirectionsMirror /\ OutlierWithout(input.buckets)
===============================================================================
