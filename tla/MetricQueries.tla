------------------------------ MODULE MetricQueries ------------------------------
(***************************************************************************)
(* The queries behind the metric tools: series (MetricSeries), the verdict *)
(* on one (MetricSignals) and the tools that gather them (MetricTools).    *)
(* A behaviour is one client's calls of one kind, part.  Queries extends   *)
(* this module with the other tools, and has the specification.            *)
(***************************************************************************)
CONSTANTS
    SeriesInputs, Specs, MaxTimeSeries, MaxCarryForwardBuckets,
    MaxFinite,                                                    \* MetricSeries
    SignalInputs, None,                                           \* MetricSignals
    ToolInputs, RelatedConcurrency, ContributorLimit              \* MetricTools

VARIABLES part, input, call, answer

Series == INSTANCE MetricSeries
Signals == INSTANCE MetricSignals
Tools == INSTANCE MetricTools

metricVars == <<part, input, call, answer>>

MetricInit ==
    \/ part = "series" /\ Series!Init
    \/ part = "signals" /\ Signals!Init
    \/ part = "tools" /\ Tools!Init

MetricNext ==
    \/ part = "series" /\ Series!Next /\ UNCHANGED part
    \/ part = "signals" /\ Signals!Next /\ UNCHANGED part
    \/ part = "tools" /\ Tools!Next /\ UNCHANGED part

-----------------------------------------------------------------------------
(* Series are folded by what they measure, and silent ones carried forward *)
(* no further than allowed (gcpdata/metrics.go:249-648).                   *)
SeriesExact == part = "series" => Series!SeriesExact

(* A verdict is one the data carries, and none that hides what is worse    *)
(* (metrics/processor.go:352-432, classify.go:134-255).                    *)
VerdictsSound == part = "signals" => Signals!VerdictsSound

(* It is the same whichever way is better and whatever one odd week of a   *)
(* baseline was (metrics/classify.go:257-272, baseline.go:40-98).          *)
VerdictsUnbiased == part = "signals" => Signals!VerdictsUnbiased

(* An answer of a metric tool says what it rests on, whatever of its       *)
(* queries fail (tools/metrics_*.go, tools.go:450-476).                    *)
ToolsHonest == part = "tools" => Tools!ToolsHonest
==================================================================================
