-------------------------------- MODULE MCQueries --------------------------------
(* Queries over small answers of the APIs.  Numbers stand for names.        *)
EXTENDS Queries, Integers, Sequences, SequencesExt, FiniteSets, FiniteSetsExt, TLC

ASSUME ListingAnnounced == Listing!ListingConstants
ASSUME PagesAnnounced == Pages!PageConstants
ASSUME TrendsAnnounced == Trends!TrendConstants
ASSUME SeriesAnnounced == Series!SeriesConstants
ASSUME ScansAnnounced == Scans!ScanConstants
ASSUME SignalsAnnounced == Signals!SignalConstants
ASSUME ToolsAnnounced == Tools!ToolConstants

(* Profiles in up to two pages, with and without a time.                   *)
Listed(type, target, time) == [type |-> type, target |-> target, time |-> time]
MCPages ==
    UNION {[1..n -> SeqOf({Listed("CPU", "web", 2), Listed("HEAP", "web", 2), Listed("CPU", "", 0)}, 2)] : n \in 1..2}
    \union [1..3 -> {<<>>, <<Listed("CPU", "web", 2)>>}]
MCFilters ==
    {[type |-> "CPU", targets |-> {}, start |-> 1, end |-> 0],
     [type |-> "", targets |-> {"web"}, start |-> 0, end |-> 2]}

(* Stacks that are empty, recursive, inlined and without a name (0).       *)
Sample(v, stack) == [value |-> <<v, 1>>, stack |-> stack]
Stacks == {<<>>, <<<<1>>>>, <<<<2>>, <<1>>>>, <<<<1>>, <<2>>, <<1>>>>, <<<<3, 2>>, <<1>>>>, <<<<0>>, <<2>>>>}
MCProfiles ==
    [current : {[types |-> <<"cpu", "n">>, samples |-> <<Sample(1, a), Sample(2, b)>>] : a, b \in Stacks}
               \union {[types |-> <<"cpu", "n">>, samples |-> <<>>]},
     base : {[types |-> <<"heap", "n">>, samples |-> <<>>],
             [types |-> <<"cpu", "n">>, samples |-> <<Sample(1, <<<<2>>, <<1>>>>), Sample(3, <<<<3>>>>)>>]}]

(* Profiles of one deployment, newest first, one of them not in the list.  *)
Body(bytes, costs) == [bytes |-> bytes, costs |-> costs]
Bodies == {Body("ok", 1 :> 3 @@ 2 :> 1), Body("ok", 2 :> 3), Body("bad", <<>>), Body("none", <<>>), Body("other", <<>>)}
Stored(id, sec, body) ==
    [id |-> id, time |-> [sec |-> sec, frac |-> 0], listed |-> id # 3, bytes |-> body.bytes, costs |-> body.costs]
MCTrends ==
    [api : {<<Stored(1, 2, a), Stored(2, 2, b), Stored(3, 2, a), Stored(4, 1, Body("ok", 2 :> 3))>> : a, b \in Bodies},
     filter : {{}, {1, 2}}, maxFunctions : {1}]

(* Log entries with and without a request, a resource, a trace.            *)
Resource(type, name, ns) == <<[type |-> type, name |-> name, namespace |-> ns, label |-> name]>>
Entry(http, resource, severity, trace, time, message) ==
    [http |-> http, resource |-> resource, severity |-> severity, trace |-> trace, time |-> time, message |-> message]
MCLogs ==
    SeqOf({Entry(TRUE, Resource(102, 1, 0), 2, 1, 2, 1), Entry(FALSE, Resource(101, 1, 1), 3, 1, 3, 0),
           Entry(FALSE, Resource(101, 1, 2), 1, 2, 1, 2), Entry(TRUE, <<>>, 0, 0, 0, 0)}, 4)
MCEntrySizes ==
    [json : {0, 9000}, text : {0, 5000}, grow : {1, 6}, url : {0, 600}, agent : {300}, labels : {0, 7000},
     resource : {100, 7000}, http : {100}, meta : {300, 10000}]

(* Traces with equal ids, missing parents and cycles; groups by count.     *)
Span(ids, starts) == [id : ids, parent : 0..4, start : starts, end : {2}]
MCSpans == {<<a, b, c>> : a \in Span({1}, {1}), b \in Span({1, 2}, {1}), c \in Span({2, 3}, {0, 2})} \union {<<>>}
Timed(start, end, count) == [start |-> start, end |-> end, count |-> count]
Histories ==
    {<<Timed(1, 2, a), Timed(2, 3, b)>> : a, b \in 0..2}
    \union {<<>>, <<Timed(3, 4, 1)>>, <<Timed(0, 2, 1), Timed(2, 0, 1)>>}
Services == <<[service |-> "s", version |-> ""], [service |-> "t", version |-> "v"]>>
MCGroups ==
    {<<[id |-> 2, count |-> 3, services |-> Services, timed |-> a],
       [id |-> 1, count |-> 3, services |-> Services, timed |-> b]>> : a, b \in Histories} \union {<<>>}

(* Two series of a counter, silent now and then; points that are no number.*)
Point(at, type, value) == [at |-> at, type |-> type, value |-> value]
SeriesOf(times, f) ==
    SetToSortSeq({Point(a, "number", f[a]) : a \in times}, LAMBDA p, q : p.at > q.at)
Counter == [kind |-> "DELTA", valueType |-> "DISTRIBUTION"]
Odd == <<Point(3, "number", 2), Point(2, "other", 0), Point(1, "nonfinite", 0), Point(1, "void", 0)>>
MCSeries ==
    {[metric |-> Counter, series |-> <<SeriesOf(a, [k \in 1..5 |-> k]), SeriesOf(b, [k \in 1..5 |-> 7 - 2 * k])>>] :
       a \in {{1}, {1, 2}, {1, 5}, {1, 2, 3, 4, 5}}, b \in SUBSET (1..5)}
    \union {[metric |-> m, series |-> s] :
       m \in [kind : {"GAUGE", "DELTA"}, valueType : {"DOUBLE", "DISTRIBUTION"}],
       s \in {<<>>, <<Odd>>, <<Odd, SeriesOf({1, 2}, <<1, 2>>), Odd, Odd>>}}
Spec_(groupBy, within, across) == [groupBy |-> groupBy, within |-> within, across |-> across]
MCSpecs ==
    {Spec_(<<"qualified">>, "max", r) : r \in {"mean", "sum", "max", "min"}}
    \union {Spec_(<<>>, "", r) : r \in {"mean", "sum", "max", "min"}}
    \union {Spec_(<<>>, "max", "sum"), Spec_(<<"bare">>, "max", "sum"), Spec_(<<"qualified">>, "", "sum"), Spec_(<<>>, "", "median")}

(* Windows of twelve steps: level, stepping, spiking or drifting, sampled  *)
(* whole or in part, in order or not.                                      *)
Level(n, value) == [i \in 1..n |-> value]
Sampled(f, times) == [k \in DOMAIN times |-> [at |-> times[k], value |-> f[times[k]]]]
Whole == [i \in 1..12 |-> i]
Shapes ==
    {[i \in 1..12 |-> IF i \in odd THEN v ELSE IF i <= turn THEN a ELSE b] :
       odd \in {{}, {6}, {2, 5, 8, 11}}, turn \in {4, 12}, a \in {4, 10}, b \in {6, 13}, v \in {2, 30}}
    \union {[i \in 1..12 |-> 4 + i], [i \in 1..12 |-> 24 - i], [i \in 1..12 |-> 0]}
Metric(kind, direction, slo, cap, thresholds) ==
    [kind |-> kind, direction |-> direction, slo |-> slo, cap |-> cap, thresholds |-> thresholds]
MCMetrics ==
    {Metric("latency", d, s, None, None) : d \in {"up", "down", "none"}, s \in {None, 12}}
    \union {Metric("saturation", "down", None, 14, None), Metric("error_rate", "down", 12, None, [delta |-> 0, breach |-> 0, cv |-> 0, spike |-> [n |-> 0, d |-> 1]])}
Signal(points, window, buckets, meta) ==
    [points |-> points, window |-> window, buckets |-> buckets, perBucket |-> 12, meta |-> meta]
MCSignals ==
    {Signal(Sampled(f, t), [start |-> 1, end |-> 12], b, m) :
       f \in Shapes, t \in {Whole, <<1, 2, 3, 4, 5, 6>>, <<7, 8>>, <<>>}, m \in MCMetrics,
       b \in {<<Level(12, 6)>>, <<Level(4, 6), Level(4, 8), Level(4, 40)>>}}
    \union {Signal(Sampled(f, Whole), [start |-> 1, end |-> 12], b, m) :
       f \in Shapes, m \in {Metric("latency", "down", 12, None, None)},
       b \in {<<>>, <<Level(12, 14)>>, <<<<>>, Level(6, 10)>>, <<Level(1, 10), Level(2, 12), <<>>, Level(4, 9)>>}}
    \union {Signal(Reverse(Sampled(f, Whole)), w, <<Level(12, 8)>>, m) :
       f \in Shapes, w \in {None, [start |-> 12, end |-> 1]}, m \in {Metric("latency", "down", 12, None, None)}}

(* Calls of the metric tools.                                              *)
Now == [start |-> 100001, end |-> 100004]
Points(value) == [i \in 1..4 |-> [at |-> 100000 + i, value |-> value]]
Contributing(label, value, weeks) == [label |-> label, points |-> Points(value), weeks |-> weeks]
MCTools ==
    [tool : {"related"}, related : {0, 2}, misconfigured : {{}, {1}}]
    \union [tool : {"compare"}, misconfigured : {{}, {1}}]
    \union [tool : {"snapshot", "top"}, misconfigured : {{}}, mode : {"same_weekday_hour", "prev_window", "pre_event"},
            window : {Now}, event : {100000}, points : {Points(12)},
            weeks : {<<Level(4, 6), Level(4, 7), Level(4, 40), Level(2, 6)>>},
            meta : {Metric("latency", "down", 8, None, None)},
            contributors : {<<Contributing(None, 3, <<>>)>>,
                            <<Contributing(None, 3, <<>>),
                              Contributing("a", 12, <<Level(4, 6), Level(4, 6), <<>>, Level(4, 8)>>),
                              Contributing("b", 4, <<<<>>, Level(1, 20), <<>>, <<>>>>),
                              Contributing("c", 12, <<Level(4, 6), Level(4, 2), Level(4, 6), Level(4, 9)>>)>>}]
===============================================================================
